---- MODULE Spec2Model ----
(***************************************************************************)
(* State-machine model of the traid market-data client (KrakenClient) and  *)
(* of the two orchestrators built on it (TradingBot, MultiCoinTradingBot). *)
(*                                                                         *)
(* Conventions                                                             *)
(*  - A symbol string is modelled by the tuple of its '/'-separated parts, *)
(*    i.e. by the value of symbol.split('/'):  "BTC/USDT" is               *)
(*    <<"BTC","USDT">>, "BTC" is <<"BTC">>, "" is <<"">>.                  *)
(*  - None is the string "None".                                           *)
(*  - Money and volumes are integers (fixed point, one unit is the         *)
(*    smallest amount the model represents); a price is an integer amount  *)
(*    of money per unit of volume, so price * volume is exact.             *)
(***************************************************************************)
EXTENDS Integers, Sequences, FiniteSets, TLC

VARIABLES
    \* ---- symbol conversion harness (pure functions of KrakenClient)
    sym_pc,              \* "off", "format", "reverse", "done"
    sym_in,              \* the symbol handed to _format_symbol
    sym_fmt,             \* result of _format_symbol(sym_in)
    sym_rev,             \* result of _reverse_format_symbol(sym_fmt)
    \* ---- KrakenClient: connection and subscriptions
    ws,                  \* self.ws: None or the id of a socket
    open_sockets,        \* ids of the sockets that are open at the exchange's end
    sockets_opened,      \* number of sockets websockets.connect has returned
    running,             \* self.running
    subscriptions,       \* self.subscriptions
    sent_messages,       \* the frames handed to ws.send, in order
    _reconnect_attempts, \* self._reconnect_attempts
    reader,              \* self._message_reader and where the read loop stands
    call,                \* the client call in progress and where it stands
    \* ---- KrakenClient: caches and observer
    price_data,          \* self.price_data: canonical symbol -> snapshot
    ohlcv_data,          \* self.ohlcv_data: canonical symbol -> list of candles
    on_price_update,     \* self.on_price_update: "None" or the name of the observer
    observer_calls,      \* the observer calls made while the last message was processed
    msg,                 \* the message _process_message was last called with
    \* ---- the orchestrator: TradingBot or MultiCoinTradingBot
    bot,                 \* the class of the orchestrator
    single_coin_mode,    \* TradingBot.single_coin_mode
    symbols,             \* self.symbols, a list
    phase,               \* "new", "running" (start() done), "crashed" (start() raised)
    active_symbol,       \* self.active_symbol
    available_balance,   \* self.available_balance
    allocated_balances,  \* self.allocated_balances
    positions,           \* TradingBot.positions; executors[s].simulator.positions[s]
    cash,                \* executors[s].simulator.balance.available
    current_prices,      \* TradingBot.current_prices; executors[s].simulator.current_prices[s]
    buys,                \* executors[s].trades: cost and volume of the buys
    coin_data,           \* the symbols the scorer has price history for
    opportunity_scores,  \* the scorer's opportunity_scores
    _analysis_complete,  \* MultiCoinTradingBot._analysis_complete
    total_trades,        \* self.total_trades
    last_op,             \* the orchestrator operation that ran last
    switching,           \* the call of _switch_active_coin in progress
    tasks,               \* self._tasks, self._stop_event and the call of stop()
    ledger,              \* a TradingSimulator on its own
    fetch,               \* a call of fetch_historical_data on its own
    pnl,                 \* the trade records and performance metrics of a TradingBot
    analyzer             \* a CoinOpportunityAnalyzer on its own

symVars == <<sym_pc, sym_in, sym_fmt, sym_rev>>

connVars == <<ws, open_sockets, sockets_opened, running, subscriptions,
              sent_messages, _reconnect_attempts, reader, call>>

msgVars == <<price_data, ohlcv_data, on_price_update, observer_calls, msg>>

orchVars == <<bot, single_coin_mode, symbols, phase, active_symbol,
              available_balance, allocated_balances, positions, cash,
              current_prices, buys, coin_data, opportunity_scores,
              _analysis_complete, total_trades, last_op,
              switching, tasks, ledger, fetch, pnl, analyzer>>

vars == <<sym_pc, sym_in, sym_fmt, sym_rev,
          ws, open_sockets, sockets_opened, running, subscriptions,
          sent_messages, _reconnect_attempts, reader, call,
          price_data, ohlcv_data, on_price_update, observer_calls, msg,
          bot, single_coin_mode, symbols, phase, active_symbol,
          available_balance, allocated_balances, positions, cash,
          current_prices, buys, coin_data, opportunity_scores,
          _analysis_complete, total_trades, last_op,
          switching, tasks, ledger, fetch, pnl, analyzer>>

\* what the steps of one part of the model leave alone
notSym  == <<connVars, msgVars, orchVars>>
notConn == <<symVars, msgVars, orchVars>>
notMsg  == <<symVars, connVars, orchVars>>

None == "None"

(***************************************************************************)
(* KrakenClient.ASSET_MAPPING, a dict: its keys in insertion order and the *)
(* value of each key.                                                      *)
(***************************************************************************)
ASSET_MAPPING_KEYS == <<"BTC", "USDT", "USD", "EUR">>

ASSET_MAPPING(k) ==
    CASE k = "BTC"  -> "XBT"
      [] k = "USDT" -> "USDT"
      [] k = "USD"  -> "USD"
      [] k = "EUR"  -> "EUR"

InMapping(k) == \E i \in 1..Len(ASSET_MAPPING_KEYS) : ASSET_MAPPING_KEYS[i] = k

\* ASSET_MAPPING.get(code, code)
MappingGet(code) == IF InMapping(code) THEN ASSET_MAPPING(code) ELSE code

\* for standard, kraken in ASSET_MAPPING.items(): if kraken == code: code = standard; break
ReverseGet(code) ==
    LET hits == {i \in 1..Len(ASSET_MAPPING_KEYS) :
                    ASSET_MAPPING(ASSET_MAPPING_KEYS[i]) = code}
    IN  IF hits = {} THEN code
        ELSE ASSET_MAPPING_KEYS[CHOOSE i \in hits : \A j \in hits : i <= j]

\* a call result: a returned value or a raised exception
Ok(v)      == [ok |-> TRUE,  val |-> v]
Raised(e)  == [ok |-> FALSE, val |-> <<e>>]

\* a result slot no call has written yet
Unset == Raised("unset")

\* "not symbol or '/' not in symbol"
NoSlash(s) == Len(s) <= 1

ReverseIdentityMutant(s) == Ok(s)

\* KrakenClient._format_symbol
_format_symbol(s) ==
    IF NoSlash(s) THEN Ok(s)
    ELSE IF Len(s) # 2 THEN Raised("ValueError")   \* base, quote = symbol.split('/')
    ELSE Ok(<<MappingGet(s[1]), MappingGet(s[2])>>)

\* KrakenClient._reverse_format_symbol
_reverse_format_symbol(s) ==
    IF NoSlash(s) THEN Ok(s)
    ELSE IF Len(s) # 2 THEN Raised("ValueError")
    ELSE Ok(<<ReverseGet(s[1]), ReverseGet(s[2])>>)


(***************************************************************************)
(* KrakenClient: the caches and _process_message.                          *)
(* A dict is a function on the set of its keys.  A message is what         *)
(* json.loads makes of it: its kind (data[2], or why it is no data         *)
(* message), the exchange pair data[3] and the payload data[1].  Numbers   *)
(* arrive as text; Decimal and int are the parsers of the code.            *)
(***************************************************************************)
EmptyDict == [k \in {} |-> {}]

DictSet(d, k, v) == [x \in DOMAIN d \cup {k} |-> IF x = k THEN v ELSE d[x]]

\* get_latest_price answers None
NoPrice == -1

\* a key the payload dict does not have
Absent == <<"absent">>

\* Decimal(text): the texts of the messages and their values
DecimalTable ==
    << <<"0", 0>>, <<"50000.00000", 50000>>, <<"51000", 51000>>, <<"49000", 49000>>,
       <<"100", 100>>, <<"200", 200>>, <<"1", 1>>, <<"2", 2>>, <<"3", 3>> >>

Decimal(text) ==
    IF \E i \in 1..Len(DecimalTable) : DecimalTable[i][1] = text
    THEN Ok(DecimalTable[CHOOSE i \in 1..Len(DecimalTable) : DecimalTable[i][1] = text][2])
    ELSE Raised("InvalidOperation")

\* int(text): an integer literal or ValueError
IntTable == << <<"1617592800", 1617592800>>, <<"1617592860", 1617592860>> >>

PyInt(text) ==
    IF \E i \in 1..Len(IntTable) : IntTable[i][1] = text
    THEN Ok(IntTable[CHOOSE i \in 1..Len(IntTable) : IntTable[i][1] = text][2])
    ELSE Raised("ValueError")

\* seq[i] of Python (i from 0) or IndexError; KeyError on an absent key
Item(seq, i) ==
    IF seq = Absent THEN Raised("KeyError")
    ELSE IF i + 1 <= Len(seq) THEN Ok(seq[i + 1]) ELSE Raised("IndexError")

\* Decimal(payload[key][i])
DecimalItem(seq, i) == IF Item(seq, i).ok THEN Decimal(Item(seq, i).val) ELSE Item(seq, i)

\* KrakenClient.get_latest_price
get_latest_price(cache, symbol) ==
    IF symbol \in DOMAIN cache THEN cache[symbol].price ELSE NoPrice

\* a payload dict without the ticker keys, and no message at all
NoTicker == [c |-> Absent, v |-> Absent, l |-> Absent, h |-> Absent]

NoMessage == [kind |-> "none", pair |-> <<"">>, price_data |-> NoTicker,
              ohlc_data |-> <<>>, now |-> 0]

\* KrakenClient.__init__, the caches
CacheInit ==
    /\ price_data = EmptyDict
    /\ ohlcv_data = EmptyDict
    /\ on_price_update = None
    /\ observer_calls = <<>>
    /\ msg = NoMessage

ZeroSnapshotMutant(p, now) ==
    Ok([price |-> 0, timestamp |-> now, volume |-> 0, low |-> 0, high |-> 0])

\* the dict literal of lines 225-231, or the first exception raised in it
Snapshot(p, now) ==
    LET price  == DecimalItem(p.c, 0)
        volume == DecimalItem(p.v, 1)
        low    == DecimalItem(p.l, 1)
        high   == DecimalItem(p.h, 1)
    IN  IF ~price.ok THEN price
        ELSE IF ~volume.ok THEN volume
        ELSE IF ~low.ok THEN low
        ELSE IF ~high.ok THEN high
        ELSE Ok([price |-> price.val, timestamp |-> now, volume |-> volume.val,
                 low |-> low.val, high |-> high.val])

ObserverBeforeCacheMutant(old, new) == old

\* the cache the observer finds when it is called: line 239 follows line 225
CacheAtCallback(old, new) == new

\* _process_message, ticker branch (lines 217-239)
ProcessTicker(m) ==
    LET std  == _reverse_format_symbol(m.pair)
        snap == Snapshot(m.price_data, m.now)
    IN  IF m.price_data.c # Absent /\ std.ok /\ snap.ok
        THEN /\ price_data' = DictSet(price_data, std.val, snap.val)
             /\ observer_calls' =
                   IF on_price_update # None
                   THEN <<[symbol |-> std.val, data |-> snap.val,
                           latest |-> get_latest_price(
                               CacheAtCallback(price_data, price_data'), std.val)]>>
                   ELSE <<>>
        ELSE /\ price_data' = price_data
             /\ observer_calls' = <<>>

\* the dict literal of lines 250-257, or the first exception raised in it
Candle(o) ==
    LET time      == Item(o, 0)
        timestamp == IF time.ok THEN PyInt(time.val) ELSE time
        open      == DecimalItem(o, 1)
        high      == DecimalItem(o, 2)
        low       == DecimalItem(o, 3)
        close     == DecimalItem(o, 4)
        volume    == DecimalItem(o, 6)
    IN  IF ~timestamp.ok THEN timestamp
        ELSE IF ~open.ok THEN open
        ELSE IF ~high.ok THEN high
        ELSE IF ~low.ok THEN low
        ELSE IF ~close.ok THEN close
        ELSE IF ~volume.ok THEN volume
        ELSE Ok([timestamp |-> timestamp.val, open |-> open.val, high |-> high.val,
                 low |-> low.val, close |-> close.val, volume |-> volume.val])

AlwaysAppendMutant(candles, timestamp) == 0

\* the index of the first candle with this timestamp (lines 262-266), 0 if none
ExistingCandle(candles, timestamp) ==
    IF \E i \in 1..Len(candles) : candles[i].timestamp = timestamp
    THEN CHOOSE i \in 1..Len(candles) :
            /\ candles[i].timestamp = timestamp
            /\ \A j \in 1..(i - 1) : candles[j].timestamp # timestamp
    ELSE 0

\* lines 259-269
Upsert(candles, candle) ==
    IF ExistingCandle(candles, candle.timestamp) # 0
    THEN [candles EXCEPT ![ExistingCandle(candles, candle.timestamp)] = candle]
    ELSE Append(candles, candle)

\* _process_message, OHLC branch (lines 242-277); no on_ohlcv_update is set
ProcessOhlc(m) ==
    LET std     == _reverse_format_symbol(m.pair)
        created == IF std.val \in DOMAIN ohlcv_data THEN ohlcv_data
                   ELSE DictSet(ohlcv_data, std.val, <<>>)
        candle  == Candle(m.ohlc_data)
    IN  IF ~std.ok THEN ohlcv_data' = ohlcv_data
        ELSE IF ~candle.ok THEN ohlcv_data' = created
        ELSE ohlcv_data' = DictSet(created, std.val, Upsert(created[std.val], candle.val))

\* KrakenClient._process_message(message); every exception is caught and logged
_process_message(m) ==
    /\ msg' = m
    /\ CASE m.kind = "ticker" -> ProcessTicker(m) /\ UNCHANGED ohlcv_data
         [] m.kind = "ohlc"   -> /\ ProcessOhlc(m)
                                 /\ observer_calls' = <<>>
                                 /\ UNCHANGED price_data
         [] OTHER             -> /\ observer_calls' = <<>>
                                 /\ UNCHANGED <<price_data, ohlcv_data>>
    /\ UNCHANGED on_price_update

\* a message arrives at a client whose observer changes nothing else
ProcessMessage(m) == _process_message(m) /\ UNCHANGED notMsg

\* the orchestrator registers its observer: client.on_price_update = handler
RegisterObserver ==
    /\ on_price_update = None
    /\ on_price_update' = "_handle_price_update"
    /\ observer_calls' = <<>>
    /\ msg' = NoMessage
    /\ UNCHANGED <<price_data, ohlcv_data, notMsg>>


(***************************************************************************)
(* KrakenClient: connection lifecycle and subscriptions.                   *)
(* Two coroutines use the client: the caller (the orchestrator, one call   *)
(* at a time) and the read loop (_message_handler).  A step runs one       *)
(* coroutine from one await to the next: the ping of connect() is answered *)
(* at once, websockets.connect and the backoff sleep are awaited.          *)
(***************************************************************************)
_max_reconnect_attempts == 5

MaxSockets == 2          \* sockets the exchange hands out in one run
\* no new call is started once the counter is beyond the maximum
MaxCounter == _max_reconnect_attempts + 1

\* self.ws is None
NoSocket == 0

\* the symbols the callers subscribe to
SubSymbols == {<<"BTC", "USDT">>, <<"XBT", "USDT">>, <<"ETH", "USDT">>}

SubLists ==
    {<<a>> : a \in SubSymbols} \cup {<<a, b>> : a \in SubSymbols, b \in SubSymbols}

(* The caller: op is the call in progress, pc where it stands ("dial":     *)
(* awaiting websockets.connect, "connect": asleep before connect() again,  *)
(* "sub": before the next subscribe_price of subscribe_prices,             *)
(* "close_wait": the sleep of close()), ret the call site its connect()    *)
(* returns to, todo the symbols still to subscribe.  attempts counts the   *)
(* connection attempts of its latest connect() call, conn what that call   *)
(* returned, symbol and result the argument of the latest                  *)
(* _subscribe_to_symbol of the call and how it ended.                      *)
IdleCall ==
    [op |-> "none", pc |-> "idle", ret |-> "return", todo |-> <<>>,
     attempts |-> 0, conn |-> "none", symbol |-> <<"">>, result |-> "none"]

(* The read loop task: pc "none" (no task), "top" (created, not yet run),  *)
(* "recv" (awaiting recv on sock), "dial", "connect", "done".  orphans     *)
(* counts the read-loop tasks that are alive and that                      *)
(* self._message_handler_task no longer refers to.                         *)
NoReader ==
    [pc |-> "none", ret |-> "loop", sock |-> NoSocket,
     attempts |-> 0, conn |-> "none", orphans |-> 0, late |-> FALSE]

\* KrakenClient.__init__
ClientInit ==
    /\ ws = NoSocket
    /\ open_sockets = {}
    /\ sockets_opened = 0
    /\ running = FALSE
    /\ subscriptions = {}
    /\ sent_messages = <<>>
    /\ _reconnect_attempts = 0
    /\ reader = NoReader
    /\ call = IdleCall

SymOff ==
    /\ sym_pc = "off"
    /\ sym_in = <<"">>
    /\ sym_fmt = Unset
    /\ sym_rev = Unset

TickerFrame(sock, pair) == [ws |-> sock, name |-> "ticker", pair |-> pair]

RECURSIVE SetToSeq(_)
SetToSeq(S) ==
    IF S = {} THEN <<>>
    ELSE LET x == CHOOSE y \in S : TRUE IN <<x>> \o SetToSeq(S \ {x})

DeadSocketMutant(sock, opens) == FALSE

\* "if self.ws" and the ping is answered
Alive(sock, opens) == sock # NoSocket /\ sock \in opens

SubscribedCheckUnformattedMutant(symbol, subs) == symbol \in subs

\* "formatted_symbol in self.subscriptions" of _subscribe_to_symbol
AlreadySubscribed(symbol, subs) == _format_symbol(symbol).val \in subs

\* KrakenClient._subscribe_to_symbol on socket sock: the subscription set and
\* the frames afterwards, and how it ended (send raises on a closed socket)
_subscribe_to_symbol(symbol, sock, opens, subs, sent) ==
    IF AlreadySubscribed(symbol, subs)
    THEN [subs |-> subs, sent |-> sent, outcome |-> "already"]
    ELSE IF sock \in opens
    THEN [subs |-> subs \cup {_format_symbol(symbol).val},
          sent |-> Append(sent, TickerFrame(sock, _format_symbol(symbol).val)),
          outcome |-> "sent"]
    ELSE [subs |-> subs, sent |-> sent, outcome |-> "raised"]

RECURSIVE SubscribeAll(_, _, _, _, _)
\* "for symbol in self.subscriptions: await self._subscribe_to_symbol(symbol)"
SubscribeAll(list, sock, opens, subs, sent) ==
    IF list = <<>> THEN [subs |-> subs, sent |-> sent]
    ELSE LET r == _subscribe_to_symbol(Head(list), sock, opens, subs, sent)
         IN  SubscribeAll(Tail(list), sock, opens, r.subs, r.sent)

\* "self._reconnect_attempts >= self._max_reconnect_attempts" of connect()
GiveUp(attempts) == attempts >= _max_reconnect_attempts

\* a call returns to the orchestrator
Returned(c) == [c EXCEPT !.op = "none", !.pc = "idle", !.ret = "return", !.todo = <<>>]

\* the caller after subscribe_price(Head(c.todo)) ended with outcome
Advance(c, outcome) ==
    IF outcome = "raised" \/ Tail(c.todo) = <<>>
    THEN [Returned(c) EXCEPT !.symbol = Head(c.todo), !.result = outcome]
    ELSE [c EXCEPT !.todo = Tail(@), !.pc = "sub", !.symbol = Head(c.todo),
                   !.result = outcome]

\* the caller when its connect() returns result with self.ws = sock
CallerAfterConnect(c, result, sock, opens, subs, sent) ==
    LET d == [c EXCEPT !.conn = result]
    IN  CASE d.ret = "return" ->
                [call |-> Returned(d), subs |-> subs, sent |-> sent]
          [] d.ret = "outer" ->     \* subscribe_prices, lines 116-120
                [call |-> IF result = "True" THEN [d EXCEPT !.pc = "sub"]
                          ELSE Returned(d),
                 subs |-> subs, sent |-> sent]
          [] d.ret = "inner" ->     \* subscribe_price, lines 131-137
                IF result = "True"
                THEN LET r == _subscribe_to_symbol(Head(d.todo), sock, opens, subs, sent)
                     IN  [call |-> Advance(d, r.outcome), subs |-> r.subs, sent |-> r.sent]
                ELSE [call |-> Advance(d, "failed"), subs |-> subs, sent |-> sent]

\* the caller enters connect(): lines 49-56
CallerEnter(c) ==
    IF Alive(ws, open_sockets)
    THEN CallerAfterConnect(c, "True", ws, open_sockets, subscriptions, sent_messages)
    ELSE [call |-> [c EXCEPT !.pc = "dial"], subs |-> subscriptions,
          sent |-> sent_messages]

\* a connect() call begins
NewChain(c, ret) ==
    [c EXCEPT !.ret = ret, !.attempts = 0, !.conn = "none"]

\* the caller runs subscribe_price(Head(c.todo)) from its first line
CallerSubscribePrice(c) ==
    IF ws = NoSocket
    THEN CallerEnter([NewChain(c, "inner") EXCEPT !.result = "none"])
    ELSE LET r == _subscribe_to_symbol(Head(c.todo), ws, open_sockets,
                                       subscriptions, sent_messages)
         IN  [call |-> Advance(c, r.outcome), subs |-> r.subs, sent |-> r.sent]

CallerTakes(r) ==
    /\ call' = r.call
    /\ subscriptions' = r.subs
    /\ sent_messages' = r.sent
    /\ UNCHANGED <<ws, open_sockets, sockets_opened, running,
                   _reconnect_attempts, reader, notConn>>

\* the orchestrator calls connect()
CallConnect ==
    /\ call.op = "none"
    /\ _reconnect_attempts < MaxCounter
    /\ CallerTakes(CallerEnter(NewChain([IdleCall EXCEPT !.op = "connect"], "return")))

\* the orchestrator calls subscribe_price(symbol)
CallSubscribePrice(symbol) ==
    /\ call.op = "none"
    /\ _reconnect_attempts < MaxCounter
    /\ CallerTakes(CallerSubscribePrice(
           [IdleCall EXCEPT !.op = "subscribe_price", !.todo = <<symbol>>]))

\* the orchestrator calls subscribe_prices(symbols)
CallSubscribePrices(list) ==
    /\ call.op = "none"
    /\ _reconnect_attempts < MaxCounter
    /\ LET c == [IdleCall EXCEPT !.op = "subscribe_prices", !.todo = list]
       IN  CallerTakes(IF ws = NoSocket THEN CallerEnter(NewChain(c, "outer"))
                       ELSE CallerSubscribePrice(c))

\* subscribe_prices: the next "await self.subscribe_price(symbol)"
CallerSubscribeNext ==
    /\ call.pc = "sub"
    /\ CallerTakes(CallerSubscribePrice(call))

\* connect(): the backoff sleep is over, "return await self.connect()"
CallerConnectRetry ==
    /\ call.pc = "connect"
    /\ CallerTakes(CallerEnter(call))

AlwaysStartMutant(r) == TRUE

\* "not self._message_handler_task or self._message_handler_task.done()"
TaskEnded(r) == r.pc \in {"none", "done"}

\* the read loop task connect() creates when there is none or it is done
StartedReader(r) ==
    IF TaskEnded(r)
    THEN [NoReader EXCEPT !.pc = "top",
                          !.orphans = r.orphans + (IF r.pc \in {"none", "done"} THEN 0
                                                   ELSE 1)]
    ELSE r

\* connect(), caller: websockets.connect returns a socket, lines 65-77; the
\* exchange hands out at most limit sockets
CallerDials(limit) ==
    /\ call.pc = "dial"
    /\ sockets_opened < limit
    /\ LET sock  == sockets_opened + 1
           opens == open_sockets \cup {sock}
           r     == SubscribeAll(SetToSeq(subscriptions), sock, opens,
                                 subscriptions, sent_messages)
       IN  /\ ws' = sock
           /\ sockets_opened' = sock
           /\ open_sockets' = opens
           /\ running' = TRUE
           /\ _reconnect_attempts' = 0
           /\ reader' = StartedReader(reader)
           /\ LET k == CallerAfterConnect([call EXCEPT !.attempts = @ + 1], "True",
                                          sock, opens, r.subs, r.sent)
              IN  /\ call' = k.call
                  /\ subscriptions' = k.subs
                  /\ sent_messages' = k.sent
    /\ UNCHANGED notConn

CallerDialSucceeds == CallerDials(MaxSockets)

\* connect(), caller: websockets.connect raises, lines 79-91
CallerDialFails ==
    /\ call.pc = "dial"
    /\ _reconnect_attempts' = _reconnect_attempts + 1
    /\ LET c == [call EXCEPT !.attempts = @ + 1]
           k == IF GiveUp(_reconnect_attempts')
                THEN CallerAfterConnect(c, "False", ws, open_sockets,
                                        subscriptions, sent_messages)
                ELSE [call |-> [c EXCEPT !.pc = "connect"],
                      subs |-> subscriptions, sent |-> sent_messages]
       IN  /\ call' = k.call
           /\ subscriptions' = k.subs
           /\ sent_messages' = k.sent
    /\ UNCHANGED <<ws, open_sockets, sockets_opened, running, reader, notConn>>

\* close(), lines 446-453: up to the sleep that lets the read loop exit
CallClose ==
    /\ call.op = "none"
    /\ running' = FALSE
    /\ open_sockets' = open_sockets \ {ws}
    /\ ws' = NoSocket
    /\ call' = IF reader.pc = "none" THEN [IdleCall EXCEPT !.result = "closed"]
               ELSE [IdleCall EXCEPT !.op = "close", !.pc = "close_wait"]
    /\ UNCHANGED <<sockets_opened, subscriptions, sent_messages,
                   _reconnect_attempts, reader, notConn>>

\* close(), lines 454-456: cancel the read loop and forget the task
CloseFinish ==
    /\ call.pc = "close_wait"
    /\ reader' = [NoReader EXCEPT !.orphans = reader.orphans]
    /\ call' = [IdleCall EXCEPT !.result = "closed"]
    /\ UNCHANGED <<ws, open_sockets, sockets_opened, running, subscriptions,
                   sent_messages, _reconnect_attempts, notConn>>

\* the read loop begins a back-off sleep of 2 ** n seconds, n >= 1 (lines 105-107
\* and 87-90); late when close() is in its sleep of 0.1 seconds (line 454),
\* which then ends first
Sleeping(r) == [r EXCEPT !.pc = "connect", !.late = (call.pc = "close_wait")]

\* the read loop awaits recv on sock
Receiving(r, sock) == [r EXCEPT !.pc = "recv", !.sock = sock]

\* the read loop when its connect() returns result with self.ws = sock
ReaderAfterConnect(r, result, sock, run) ==
    LET d == [r EXCEPT !.conn = result]
    IN  IF result = "False"
        THEN [reader |-> [d EXCEPT !.pc = "done"], running |-> FALSE]
        ELSE IF d.ret = "loop" \/ run
        THEN [reader |-> Receiving(d, sock), running |-> run]
        ELSE [reader |-> [d EXCEPT !.pc = "done"], running |-> run]

\* the read loop enters connect(): lines 49-56
ReaderEnter(r) ==
    IF Alive(ws, open_sockets)
    THEN ReaderAfterConnect(r, "True", ws, running)
    ELSE [reader |-> [r EXCEPT !.pc = "dial"], running |-> running]

ReaderTakes(k) ==
    /\ reader' = k.reader
    /\ running' = k.running
    /\ UNCHANGED <<ws, open_sockets, sockets_opened, subscriptions, sent_messages,
                   _reconnect_attempts, call, notConn>>

\* _message_handler: the task runs for the first time, lines 175-186
ReaderTop ==
    /\ reader.pc = "top"
    /\ ReaderTakes(IF ~running
                   THEN [reader |-> [reader EXCEPT !.pc = "done"], running |-> running]
                   ELSE IF ws = NoSocket
                   THEN ReaderEnter(NewChain(reader, "loop"))
                   ELSE [reader |-> Receiving(reader, ws), running |-> running])

\* _message_handler: recv raises ConnectionClosed, _reconnect_once runs
\* up to its sleep (lines 189-191 and 93-107)
ReaderRecvClosed ==
    /\ reader.pc = "recv"
    /\ reader.sock \notin open_sockets
    /\ open_sockets' = open_sockets \ {ws}
    /\ ws' = NoSocket
    /\ _reconnect_attempts' = _reconnect_attempts + 1
    /\ IF _reconnect_attempts' > _max_reconnect_attempts
       THEN /\ reader' = [reader EXCEPT !.pc = "done", !.conn = "False", !.attempts = 0]
            /\ running' = FALSE
       ELSE /\ reader' = Sleeping(NewChain(reader, "reconnect"))
            /\ UNCHANGED running
    /\ UNCHANGED <<sockets_opened, subscriptions, sent_messages, call, notConn>>

\* connect() in the read loop: the sleep is over, connect() again
ReaderConnectRetry ==
    /\ reader.pc = "connect"
    /\ ~reader.late
    /\ ReaderTakes(ReaderEnter(reader))

\* connect() in the read loop: websockets.connect returns a socket
ReaderDials(limit) ==
    /\ reader.pc = "dial"
    /\ sockets_opened < limit
    /\ LET sock  == sockets_opened + 1
           opens == open_sockets \cup {sock}
           r     == SubscribeAll(SetToSeq(subscriptions), sock, opens,
                                 subscriptions, sent_messages)
           k     == ReaderAfterConnect([reader EXCEPT !.attempts = @ + 1], "True",
                                       sock, TRUE)
       IN  /\ ws' = sock
           /\ sockets_opened' = sock
           /\ open_sockets' = opens
           /\ _reconnect_attempts' = 0
           /\ subscriptions' = r.subs
           /\ sent_messages' = r.sent
           /\ reader' = k.reader
           /\ running' = k.running
    /\ UNCHANGED <<call, notConn>>

ReaderDialSucceeds == ReaderDials(MaxSockets)

\* connect() in the read loop: websockets.connect raises
ReaderDialFails ==
    /\ reader.pc = "dial"
    /\ _reconnect_attempts' = _reconnect_attempts + 1
    /\ LET r == [reader EXCEPT !.attempts = @ + 1]
           k == IF GiveUp(_reconnect_attempts')
                THEN ReaderAfterConnect(r, "False", ws, running)
                ELSE [reader |-> Sleeping(r), running |-> running]
       IN  /\ reader' = k.reader
           /\ running' = k.running
    /\ UNCHANGED <<ws, open_sockets, sockets_opened, subscriptions,
                   sent_messages, call, notConn>>

\* the exchange or the network closes a socket
SocketCloses ==
    /\ \E sock \in open_sockets : open_sockets' = open_sockets \ {sock}
    /\ UNCHANGED <<ws, sockets_opened, running, subscriptions, sent_messages,
                   _reconnect_attempts, reader, call, notConn>>

(***************************************************************************)
(* The orchestrators: TradingBot (trading_bot.py) and MultiCoinTradingBot  *)
(* (trading/multi_coin_bot.py).  Amounts of money and volumes are whole    *)
(* numbers; a product with a fraction (80%, 95%, ...) and a quotient are   *)
(* rounded down.  A dict over symbols is a function on all symbols with 0  *)
(* (NoScore for scores) where the dict has no key.                         *)
(***************************************************************************)
InitialBalance == 1000   \* initial_balance
MaxTrades == 2           \* no trade is made once total_trades is this
MaxBalance == 1000       \* no executor cycle once the balances exceed this

BTC == <<"BTC", "USDT">>
ETH == <<"ETH", "USDT">>
SOL == <<"SOL", "USDT">>
AllSymbols == {BTC, ETH, SOL}

\* self.active_symbol is None
NoSymbol == <<>>

\* the symbol has no score
NoScore == -1

Zeros == [s \in AllSymbols |-> 0]

Range(seq) == {seq[i] : i \in 1..Len(seq)}

\* the operation that made the last step; for a switch the symbol it left and
\* whether it sold a position
Op(name, old, sold) == [op |-> name, old |-> old, sold |-> sold]

\* no call of _switch_active_coin is in progress
NoSwitch == [pc |-> "idle", new_symbol |-> NoSymbol]

\* self._tasks is empty, self._stop_event is clear and stop() is not called
NoTasks == [is_running |-> FALSE, start |-> "idle", analysis |-> "none",
            trading |-> "none", stop_event |-> FALSE, stop |-> "idle",
            stops |-> 0, closed |-> 0, summaries |-> 0]

\* no TradingSimulator is constructed
NoCall == [op |-> "none", symbol |-> <<>>, price |-> 0, volume |-> 0]

NoLedger == [made |-> FALSE, balance |-> 0, positions |-> <<>>, trades_history |-> <<>>,
             call |-> NoCall, returned |-> "none"]

\* fetch_historical_data is not called
NoFetch == [pc |-> "idle", requested |-> <<>>, responses |-> <<>>,
            historical_data |-> <<>>, failed_symbols |-> <<>>, returned |-> "none"]

\* CoinOpportunityAnalyzer(): the default switch_threshold, no scores, and
\* should_change_coin not called
NoAnalyzer == [switch_threshold |-> 15,
               opportunity_scores |-> [s \in {<<"BTC", "USDT">>, <<"ETH", "USDT">>,
                                               <<"SOL", "USDT">>} |-> -1],
               current_coin |-> <<>>, returned |-> <<>>]

\* a sell that has not happened
NoSale == [price |-> 0, volume |-> 0, open_cost |-> 0, open_volume |-> 0,
           added |-> [num |-> 0, den |-> 1], counted |-> FALSE]

\* TradingBot.__init__, lines 57-60, for one symbol: nothing allocated, no
\* position, no record in execution_history
NoPnl == [allocated |-> 0, position |-> 0, buy_cost |-> 0, buy_volume |-> 0,
          open_cost |-> 0, open_volume |-> 0, trades |-> 0,
          total_profit_loss |-> [num |-> 0, den |-> 1], profitable_trades |-> 0,
          sold |-> NoSale]

\* no orchestrator is running with the client
NoOrchestrator ==
    /\ bot = "none"
    /\ single_coin_mode = FALSE
    /\ symbols = <<>>
    /\ phase = "new"
    /\ active_symbol = NoSymbol
    /\ available_balance = 0
    /\ allocated_balances = Zeros
    /\ positions = Zeros
    /\ cash = Zeros
    /\ current_prices = Zeros
    /\ buys = [s \in AllSymbols |-> [cost |-> 0, volume |-> 0]]
    /\ coin_data = <<>>
    /\ opportunity_scores = [s \in AllSymbols |-> NoScore]
    /\ _analysis_complete = FALSE
    /\ total_trades = 0
    /\ last_op = Op("none", NoSymbol, FALSE)
    /\ switching = NoSwitch
    /\ tasks = NoTasks
    /\ ledger = NoLedger
    /\ fetch = NoFetch
    /\ pnl = NoPnl
    /\ analyzer = NoAnalyzer

\* TradingBot.__init__(symbols, timeframe, initial_balance, client, single_coin_mode)
\* and MultiCoinTradingBot.__init__(symbols, timeframe, initial_balance); the
\* executors of the latter start with an empty ledger
OrchestratorInit(class, single, syms) ==
    /\ bot = class
    /\ single_coin_mode = single
    /\ symbols = syms
    /\ phase = "new"
    /\ active_symbol = IF class = "TradingBot" /\ single /\ syms # <<>>
                       THEN syms[1] ELSE NoSymbol
    /\ available_balance = InitialBalance
    /\ allocated_balances =
          [s \in AllSymbols |-> IF class = "TradingBot" /\ single /\ syms # <<>>
                                   /\ s = syms[1]
                                THEN InitialBalance ELSE 0]
    /\ positions = Zeros
    /\ cash = Zeros
    /\ current_prices = Zeros
    /\ buys = [s \in AllSymbols |-> [cost |-> 0, volume |-> 0]]
    /\ coin_data = <<>>
    /\ opportunity_scores = [s \in AllSymbols |-> NoScore]
    /\ _analysis_complete = FALSE
    /\ total_trades = 0
    /\ last_op = Op("none", NoSymbol, FALSE)
    /\ switching = NoSwitch
    /\ tasks = NoTasks
    /\ ledger = NoLedger
    /\ fetch = NoFetch
    /\ pnl = NoPnl
    /\ analyzer = NoAnalyzer
    /\ on_price_update = IF class = "TradingBot" THEN "_handle_price_update" ELSE None

\* client.get_latest_price(symbol), 0 when it answers None
LatestPrice(symbol) ==
    IF get_latest_price(price_data, symbol) = NoPrice THEN 0
    ELSE get_latest_price(price_data, symbol)

\* _handle_price_update(update) of the orchestrator: TradingBot lines 70-77,
\* MultiCoinTradingBot lines 155-170 (update_market_price raises on a price <= 0
\* and the analyzer is then not fed)
\* "if symbol not in self.coin_data: self.coin_data[symbol] = {...}": the keys
\* of coin_data in insertion order
Remembered(data, symbol) ==
    IF symbol \in Range(data) THEN data ELSE Append(data, symbol)

HandlePriceUpdate(calls) ==
    IF calls = <<>> THEN UNCHANGED <<current_prices, coin_data>>
    ELSE LET symbol == calls[1].symbol
             price  == calls[1].data.price
         IN  IF bot = "TradingBot"
             THEN /\ current_prices' = [current_prices EXCEPT ![symbol] = price]
                  /\ coin_data' = Remembered(coin_data, symbol)
             ELSE IF symbol \in Range(symbols) /\ price <= 0
             THEN UNCHANGED <<current_prices, coin_data>>
             ELSE /\ current_prices' =
                        IF symbol \in Range(symbols)
                        THEN [current_prices EXCEPT ![symbol] = price]
                        ELSE current_prices
                  /\ coin_data' = Remembered(coin_data, symbol)

\* the read loop hands a ticker message to _process_message, which calls the
\* orchestrator's observer
DeliverTicker(m) ==
    /\ phase \in {"subscribing", "running"}
    /\ ws # NoSocket
    /\ _process_message(m)
    /\ HandlePriceUpdate(observer_calls')
    /\ last_op' = Op("price", NoSymbol, FALSE)
    /\ UNCHANGED <<switching, tasks, ledger, fetch, pnl, analyzer, bot, single_coin_mode, symbols, phase, active_symbol,
                   available_balance, allocated_balances, positions, cash, buys,
                   opportunity_scores, _analysis_complete, total_trades,
                   symVars, connVars>>

\* the scores the scorers give: 50 is the neutral score
Scores == {50, 70, 78, 80, 85, 90}

TradingBotMargin == 10

AnalyzerMargin == 15

\* the keys of opportunity_scores in the order of the dict, which is the order
\* of coin_data
Scored(scores, order) == SelectSeq(order, LAMBDA s : scores[s] # NoScore)

FirstScoredMutant(scores, order) ==
    IF Scored(scores, order) = <<>> THEN NoSymbol ELSE Scored(scores, order)[1]

\* sorted(scores.items(), key=score, reverse=True)[0][0]: the first of the
\* symbols with the highest score, None without scores
Best(scores, order) ==
    LET scored == Scored(scores, order)
    IN  IF scored = <<>> THEN NoSymbol
        ELSE scored[CHOOSE i \in 1..Len(scored) :
                       /\ \A j \in 1..Len(scored) : scores[scored[j]] <= scores[scored[i]]
                       /\ \A j \in 1..(i - 1) : scores[scored[j]] < scores[scored[i]]]

\* _calculate_opportunity_scores / calculate_opportunity_scores: every symbol
\* with price history gets the score sc computed from it
Rescored(scores, order, sc) ==
    [s \in AllSymbols |-> IF s \in Range(order) THEN sc[s] ELSE scores[s]]

AtLeastMarginMutant(best_score, current_score, margin) ==
    best_score >= current_score + margin

\* "best_score > current_score + 10" (trading_bot.py 317) and
\* "best_score > current_score + 15" (coin_analyzer.py)
ExceedsMargin(best_score, current_score, margin) ==
    best_score > current_score + margin

\* TradingBot._should_change_coin
_should_change_coin(scores, order) ==
    LET best_coin == Best(scores, order)
    IN  IF active_symbol = NoSymbol \/ scores[active_symbol] = NoScore THEN best_coin
        ELSE IF best_coin = NoSymbol THEN NoSymbol
        ELSE IF best_coin # active_symbol
                /\ ExceedsMargin(scores[best_coin], scores[active_symbol],
                                 TradingBotMargin)
        THEN best_coin
        ELSE NoSymbol

\* CoinOpportunityAnalyzer.should_change_coin(current_coin)
should_change_coin(scores, order, current_coin) ==
    LET best_coin == Best(scores, order)
    IN  IF Len(Scored(scores, order)) < 2 THEN NoSymbol
        ELSE IF scores[current_coin] = NoScore THEN best_coin
        ELSE IF best_coin # current_coin
                /\ ExceedsMargin(scores[best_coin], scores[current_coin],
                                 AnalyzerMargin)
        THEN best_coin
        ELSE NoSymbol

\* Decimal('0.8') of TradingBot and Decimal('0.7') of MultiCoinTradingBot, in tenths
AllocationTenths == IF bot = "TradingBot" THEN 8 ELSE 7

PoolWithoutAllocationMutant(available, amount) == available

\* "self.available_balance += self.allocated_balances[self.active_symbol]"
Pooled(available, amount) == available + amount

KeepOldAllocationMutant(alloc, old) == alloc

\* "self.allocated_balances[self.active_symbol] = Decimal('0')"
Released(alloc, old) == [alloc EXCEPT ![old] = 0]

\* _switch_active_coin(new_symbol) of both orchestrators: the values of the
\* attributes afterwards.  TradingBot sells through _execute_sell, which credits
\* the allocation; MultiCoinTradingBot sells through the executor's simulator,
\* which credits the executor's balance.
Switched(new_symbol) ==
    LET old    == active_symbol
        price  == IF old = NoSymbol THEN 0 ELSE LatestPrice(old)
        sells  == old # NoSymbol /\ positions[old] > 0 /\ price > 0
        income == IF sells THEN price * positions[old] ELSE 0
        alloc1 == IF sells /\ bot = "TradingBot"
                  THEN [allocated_balances EXCEPT ![old] = @ + income]
                  ELSE allocated_balances
        pool   == IF old = NoSymbol THEN available_balance
                  ELSE Pooled(available_balance, alloc1[old])
        alloc2 == IF old = NoSymbol THEN alloc1 ELSE Released(alloc1, old)
        allocation == (pool * AllocationTenths) \div 10
    IN  [active    |-> new_symbol,
         available |-> pool - allocation,
         allocated |-> [alloc2 EXCEPT ![new_symbol] = allocation],
         positions |-> IF sells THEN [positions EXCEPT ![old] = 0] ELSE positions,
         cash      |-> IF sells /\ bot # "TradingBot"
                       THEN [cash EXCEPT ![old] = @ + income] ELSE cash,
         trades    |-> IF sells /\ bot = "TradingBot"
                       THEN total_trades + 1 ELSE total_trades,
         op        |-> Op("switch", old, sells)]

\* the attributes when no switch is made
Stayed(name) ==
    [active |-> active_symbol, available |-> available_balance,
     allocated |-> allocated_balances, positions |-> positions, cash |-> cash,
     trades |-> total_trades, op |-> Op(name, NoSymbol, FALSE)]

\* _switch_active_coin(new_symbol), with its early return
_switch_active_coin(new_symbol, name) ==
    IF new_symbol \in Range(symbols) THEN Switched(new_symbol) ELSE Stayed(name)

Becomes(r) ==
    /\ active_symbol' = r.active
    /\ available_balance' = r.available
    /\ allocated_balances' = r.allocated
    /\ positions' = r.positions
    /\ cash' = r.cash
    /\ total_trades' = r.trades
    /\ last_op' = r.op

\* one iteration of TradingBot._analysis_loop in multi-coin mode
AnalysisTradingBot(sc) ==
    /\ bot = "TradingBot" /\ ~single_coin_mode
    /\ phase = "running"
    /\ LET scores == Rescored(opportunity_scores, coin_data, sc)
           better == _should_change_coin(scores, coin_data)
       IN  /\ opportunity_scores' = scores
           /\ Becomes(IF Scored(scores, coin_data) = <<>> THEN Stayed("analysis")
                      ELSE IF better # NoSymbol /\ better # active_symbol
                      THEN _switch_active_coin(better, "analysis")
                      ELSE Stayed("analysis"))
    /\ UNCHANGED <<switching, tasks, ledger, fetch, pnl, analyzer, bot, single_coin_mode, symbols, phase, current_prices, buys,
                   coin_data, _analysis_complete, symVars, connVars, msgVars>>

\* "scores and any(score != 50 for score in scores.values())"
Conclusive(scores, order) ==
    \E i \in 1..Len(Scored(scores, order)) : scores[Scored(scores, order)[i]] # 50

\* one iteration of MultiCoinTradingBot._market_analysis_loop; the analyzer
\* recomputes its scores only when update_interval has passed (fresh)
AnalysisMultiCoin(sc, fresh) ==
    /\ bot = "MultiCoinTradingBot"
    /\ phase = "running"
    /\ LET scores == IF fresh THEN Rescored(opportunity_scores, coin_data, sc)
                     ELSE opportunity_scores
           better == IF active_symbol = NoSymbol THEN Best(scores, coin_data)
                     ELSE should_change_coin(scores, coin_data, active_symbol)
       IN  /\ opportunity_scores' = scores
           /\ _analysis_complete' = (_analysis_complete \/ Conclusive(scores, coin_data))
           /\ Becomes(IF Conclusive(scores, coin_data) /\ better # NoSymbol
                         /\ better # active_symbol
                      THEN _switch_active_coin(better, "analysis")
                      ELSE Stayed("analysis"))
    /\ UNCHANGED <<switching, tasks, ledger, fetch, pnl, analyzer, bot, single_coin_mode, symbols, phase, current_prices, buys,
                   coin_data, symVars, connVars, msgVars>>

\* the client after connect() and subscribe_prices(symbols) of start(): the
\* socket is open, the symbols are subscribed and the read loop receives; or
\* every attempt of both calls failed
StartClient(connected) ==
    IF connected
    THEN LET r == SubscribeAll(symbols, 1, {1}, {}, <<>>)
         IN  /\ ws' = 1
             /\ open_sockets' = {1}
             /\ sockets_opened' = 1
             /\ running' = TRUE
             /\ subscriptions' = r.subs
             /\ sent_messages' = r.sent
             /\ _reconnect_attempts' = 0
             /\ reader' = Receiving(NoReader, 1)
             /\ call' = IdleCall
    ELSE /\ _reconnect_attempts' = _max_reconnect_attempts + 1
         /\ UNCHANGED <<ws, open_sockets, sockets_opened, running, subscriptions,
                        sent_messages, reader, call>>

\* fetch_historical_data answered for the symbols of fetched: the keys of the
\* dict it returns, in the order of the request
Fetched(fetched) == SelectSeq(symbols, LAMBDA s : s \in fetched)

\* start() sets is_running at its first lines and creates the two loop tasks
\* at its end, which it does not reach when it raises
Spawned(t, reached) ==
    IF reached THEN [t EXCEPT !.is_running = TRUE, !.analysis = "head", !.trading = "head"]
    ELSE [t EXCEPT !.is_running = TRUE]

\* TradingBot.start(); historical_data is False when no symbol could be
\* fetched, and False.items() raises
StartTradingBot(connected, fetched, sc) ==
    /\ bot = "TradingBot"
    /\ phase = "new"
    /\ tasks' = Spawned(tasks, fetched # {})
    /\ StartClient(connected)
    /\ IF fetched = {}
       THEN /\ phase' = "crashed"
            /\ last_op' = Op("start", NoSymbol, FALSE)
            /\ UNCHANGED <<coin_data, opportunity_scores, active_symbol,
                           available_balance, allocated_balances, positions, cash,
                           total_trades>>
       ELSE LET data   == Fetched(fetched)
                scores == Rescored(opportunity_scores, data, sc)
                best   == Best(scores, data)
            IN  /\ phase' = "running"
                /\ coin_data' = data
                /\ opportunity_scores' = scores
                /\ Becomes(IF ~single_coin_mode /\ best # NoSymbol
                           THEN [_switch_active_coin(best, "start")
                                    EXCEPT !.op = Op("start", NoSymbol, FALSE)]
                           ELSE Stayed("start"))
    /\ UNCHANGED <<switching, ledger, fetch, pnl, analyzer, bot, single_coin_mode, symbols, current_prices, buys,
                   _analysis_complete, symVars, msgVars>>

\* CoinOpportunityAnalyzer.load_market_data(symbol, ohlcv_data) for every item
\* of the history: the analyzer holds data of these symbols
load_market_data(data) == data

\* MultiCoinTradingBot.start(); the history is fetched before the client connects
StartMultiCoin(connected, fetched, sc) ==
    /\ bot = "MultiCoinTradingBot"
    /\ phase = "new"
    /\ tasks' = Spawned(tasks, fetched # {})
    /\ IF fetched = {}
       THEN /\ phase' = "crashed"
            /\ last_op' = Op("start", NoSymbol, FALSE)
            /\ UNCHANGED <<coin_data, opportunity_scores, active_symbol,
                           available_balance, allocated_balances, positions, cash,
                           total_trades, _analysis_complete, connVars,
                           on_price_update>>
       ELSE LET data   == load_market_data(Fetched(fetched))
                scores == Rescored(opportunity_scores, data, sc)
                best   == Best(scores, data)
            IN  /\ phase' = "running"
                /\ StartClient(connected)
                /\ on_price_update' = "_handle_price_update"
                /\ coin_data' = data
                /\ opportunity_scores' = scores
                /\ _analysis_complete' = Conclusive(scores, data)
                /\ Becomes(IF Conclusive(scores, data)
                           THEN [_switch_active_coin(best, "start")
                                    EXCEPT !.op = Op("start", NoSymbol, FALSE)]
                           ELSE Stayed("start"))
    /\ UNCHANGED <<switching, ledger, fetch, pnl, analyzer, bot, single_coin_mode, symbols, current_prices, buys, symVars,
                   price_data, ohlcv_data, observer_calls, msg>>

AnyPriceMutant(price) == TRUE

\* "if not price or price <= 0: continue" (trading_bot.py 202) and "if
\* latest_price is None or latest_price <= 0: continue" (multi_coin_bot.py 254)
\* let the iteration go on
ValidPrice(price) == price > 0

\* _generate_trading_signal(symbol): the signals it can return; without price
\* history it holds, it buys only without a position and sells only with one
Signals(symbol) ==
    IF symbol \notin Range(coin_data) THEN {0}
    ELSE IF positions[symbol] = 0 THEN {0, 1} ELSE {0, -1}

\* TradingBot._execute_buy(symbol, price) without a volume: the allocation, the
\* position and whether it bought.  Amounts are whole numbers, a quotient is
\* rounded down, and the smallest volume is 1.
_execute_buy(symbol, price) ==
    LET bal            == allocated_balances[symbol]
        position_value == (bal * 95) \div 100
        volume         == position_value \div price
        cost           == price * volume
    IN  IF price <= 0 \/ bal <= 0 \/ volume < 1
        THEN [allocated |-> allocated_balances, positions |-> positions, done |-> FALSE]
        ELSE [allocated |-> [allocated_balances EXCEPT ![symbol] = @ - cost],
              positions |-> [positions EXCEPT ![symbol] = @ + volume],
              done |-> TRUE]

\* TradingBot._execute_sell(symbol, price) of the whole position
_execute_sell(symbol, price) ==
    IF price <= 0 \/ positions[symbol] <= 0
    THEN [allocated |-> allocated_balances, positions |-> positions, done |-> FALSE]
    ELSE [allocated |-> [allocated_balances EXCEPT
                            ![symbol] = @ + price * positions[symbol]],
          positions |-> [positions EXCEPT ![symbol] = 0],
          done |-> TRUE]

\* one iteration of TradingBot._trading_loop that reaches the signal
TradeTradingBot(signal) ==
    /\ bot = "TradingBot"
    /\ phase = "running"
    /\ active_symbol # NoSymbol
    /\ allocated_balances[active_symbol] > 0
    /\ ValidPrice(LatestPrice(active_symbol))
    /\ signal \in Signals(active_symbol)
    /\ signal # 0 => total_trades < MaxTrades
    /\ LET price == LatestPrice(active_symbol)
           r == IF signal = 1 THEN _execute_buy(active_symbol, price)
                ELSE IF signal = -1 THEN _execute_sell(active_symbol, price)
                ELSE [allocated |-> allocated_balances, positions |-> positions,
                      done |-> FALSE]
       IN  /\ allocated_balances' = r.allocated
           /\ positions' = r.positions
           /\ total_trades' = IF r.done THEN total_trades + 1 ELSE total_trades
           /\ last_op' = Op(IF ~r.done THEN "hold" ELSE IF signal = 1 THEN "buy" ELSE "sell",
                            NoSymbol, FALSE)
    /\ UNCHANGED <<switching, tasks, ledger, fetch, pnl, analyzer, bot, single_coin_mode, symbols, phase, active_symbol,
                   available_balance, cash, current_prices, buys, coin_data,
                   opportunity_scores, _analysis_complete, symVars, connVars, msgVars>>

\* TradingExecutor._calculate_position_size(price) with balance.available = funds:
\* a tenth of the funds (the minimum of 0.001 is below the smallest volume)
_calculate_position_size(funds, price) == (funds \div 10) \div price

\* TradingExecutor._can_buy with balance.available = funds
_can_buy(symbol, funds, price) ==
    /\ ~(10 * positions[symbol] * price >= 8 * funds)
    /\ ~(10 * _calculate_position_size(funds, price) * price > 2 * funds)

\* TradingExecutor._can_sell: a position, and no recorded buy or the price is
\* 5% above or 2% below the average buy price
_can_sell(symbol, price) ==
    /\ positions[symbol] > 0
    /\ \/ buys[symbol].volume = 0
       \/ 100 * (price * buys[symbol].volume - buys[symbol].cost) >= 5 * buys[symbol].cost
       \/ 100 * (price * buys[symbol].volume - buys[symbol].cost) <= -2 * buys[symbol].cost

\* TradingExecutor.execute_cycle() with balance.available = funds; has_data,
\* close and signal are what the executor's market data and strategy give
execute_cycle(symbol, funds, has_data, close, signal) ==
    LET volume == _calculate_position_size(funds, close)
        buying == /\ has_data /\ signal = 1 /\ _can_buy(symbol, funds, close)
                  /\ volume > 0 /\ close * volume <= funds
        selling == has_data /\ signal = -1 /\ _can_sell(symbol, close)
        price  == IF has_data THEN close ELSE current_prices[symbol]
        funds1 == IF buying THEN funds - close * volume
                  ELSE IF selling THEN funds + close * positions[symbol]
                  ELSE funds
        held   == IF buying THEN positions[symbol] + volume
                  ELSE IF selling THEN 0
                  ELSE positions[symbol]
    IN  [action |-> IF buying THEN "buy" ELSE IF selling THEN "sell" ELSE "hold",
         price |-> price,
         cash |-> funds1,
         position |-> held,
         buys |-> IF buying THEN [cost |-> buys[symbol].cost + close * volume,
                                  volume |-> buys[symbol].volume + volume]
                  ELSE buys[symbol],
         portfolio_value |-> funds1 + held * price]

\* one iteration of MultiCoinTradingBot._trading_execution_loop that reaches
\* the executor: lines 262, 265 and 269
TradeMultiCoin(has_data, close, signal) ==
    /\ bot = "MultiCoinTradingBot"
    /\ phase = "running"
    /\ _analysis_complete
    /\ active_symbol # NoSymbol
    /\ allocated_balances[active_symbol] > 0
    /\ available_balance + allocated_balances[active_symbol] <= MaxBalance
    /\ ValidPrice(LatestPrice(active_symbol))
    /\ signal # 0 => total_trades < MaxTrades
    /\ LET result == execute_cycle(active_symbol, allocated_balances[active_symbol],
                                   has_data, close, signal)
       IN  /\ cash' = [cash EXCEPT ![active_symbol] = result.cash]
           /\ positions' = [positions EXCEPT ![active_symbol] = result.position]
           /\ buys' = [buys EXCEPT ![active_symbol] = result.buys]
           /\ current_prices' = [current_prices EXCEPT ![active_symbol] = result.price]
           /\ allocated_balances' =
                 [allocated_balances EXCEPT ![active_symbol] = result.portfolio_value]
           /\ total_trades' = IF result.action = "hold" THEN total_trades
                              ELSE total_trades + 1
           /\ last_op' = Op(result.action, NoSymbol, FALSE)
    /\ UNCHANGED <<switching, tasks, ledger, fetch, pnl, analyzer, bot, single_coin_mode, symbols, phase, active_symbol,
                   available_balance, coin_data, opportunity_scores,
                   _analysis_complete, symVars, connVars, msgVars>>

(***************************************************************************)
(* Specification SpecConn: the client under every interleaving of the      *)
(* caller's calls, the read loop and the failures of the network.          *)
(***************************************************************************)
ConnInit == SymOff /\ ClientInit /\ CacheInit /\ NoOrchestrator

ConnNext ==
    \/ CallConnect
    \/ \E symbol \in SubSymbols : CallSubscribePrice(symbol)
    \/ \E list \in SubLists : CallSubscribePrices(list)
    \/ CallerSubscribeNext
    \/ CallerConnectRetry
    \/ CallerDialSucceeds
    \/ CallerDialFails
    \/ CallClose
    \/ CloseFinish
    \/ ReaderTop
    \/ ReaderRecvClosed
    \/ ReaderConnectRetry
    \/ ReaderDialSucceeds
    \/ ReaderDialFails
    \/ SocketCloses

SpecConn == ConnInit /\ [][ConnNext]_vars

\* a step in which the caller's _subscribe_to_symbol(call'.symbol) ran
SubscribeRan == call' # call /\ call'.result \in {"already", "sent", "raised"}

\* C1: a ticker subscribe frame is sent for a symbol only when its
\* exchange-formatted form is not yet in the subscription set, and then the
\* form joins the set; subscribing to an already-subscribed symbol sends no
\* frame and leaves the subscription set unchanged; nothing else sends a
\* ticker frame or changes the set.
C1_IdempotentSubscribe ==
    [][LET pair == _format_symbol(call'.symbol).val
       IN  /\ (SubscribeRan /\ pair \in subscriptions)
                => (sent_messages' = sent_messages /\ subscriptions' = subscriptions)
           /\ (SubscribeRan /\ pair \notin subscriptions)
                => \/ /\ call'.result = "sent"
                      /\ sent_messages' = Append(sent_messages,
                             [ws |-> ws', name |-> "ticker", pair |-> pair])
                      /\ subscriptions' = subscriptions \cup {pair}
                   \/ /\ call'.result = "raised"
                      /\ sent_messages' = sent_messages
                      /\ subscriptions' = subscriptions
           /\ ~SubscribeRan
                => (sent_messages' = sent_messages /\ subscriptions' = subscriptions)
      ]_vars

\* BTC/USDT is subscribed a second time: one frame, one pair, nothing sent again
C1_Witness ==
    /\ call.op = "none"
    /\ call.symbol = <<"BTC", "USDT">>
    /\ call.result = "already"
    /\ subscriptions = {<<"XBT", "USDT">>}
    /\ sent_messages = <<[ws |-> 1, name |-> "ticker", pair |-> <<"XBT", "USDT">>]>>

\* C4 (as claimed): no connect() call performs more than max_attempts connection
\* attempts, and a call whose max_attempts-th attempt has been made has returned.
C4_ReconnectBound ==
    /\ call.attempts <= _max_reconnect_attempts
    /\ reader.attempts <= _max_reconnect_attempts
    /\ call.attempts = _max_reconnect_attempts => call.pc \notin {"dial", "connect"}
    /\ reader.attempts = _max_reconnect_attempts => reader.pc \notin {"dial", "connect"}

(***************************************************************************)
(* Specifications SpecTicker and SpecOhlc: the client fed with ticker      *)
(* messages, and with OHLC messages, well-formed and not, in every order.  *)
(***************************************************************************)
ExchangePairs == {<<"XBT", "USDT">>, <<"ETH", "USDT">>}

Clock == {1, 2}          \* int(time.time() * 1000)

TickerPayloads ==
    LET good == [c |-> <<"50000.00000", "0.001">>, v |-> <<"100", "200">>,
                 l |-> <<"49000", "49000">>, h |-> <<"51000", "51000">>]
    IN  { good,
          [good EXCEPT !.c = <<"51000", "0.002">>],
          [good EXCEPT !.c = Absent],              \* no "c": skipped
          [good EXCEPT !.v = Absent],              \* KeyError
          [good EXCEPT !.v = <<"100">>],           \* IndexError
          [good EXCEPT !.c = <<"abc", "1">>] }     \* InvalidOperation

OhlcPayloads ==
    { <<time>> \o rest :
        time \in {"1617592800", "1617592860", "1617592800.5"},
        rest \in { <<"1", "2", "1", "2", "1", "100">>,
                   <<"2", "3", "2", "3", "2", "200">>,
                   <<"1", "abc", "1", "2", "1", "100">>,
                   <<"1", "2", "1", "2">> } }

TickerMessages ==
    {[NoMessage EXCEPT !.kind = "ticker", !.pair = x, !.price_data = p, !.now = t] :
        x \in ExchangePairs, p \in TickerPayloads, t \in Clock}

OhlcMessages ==
    {[NoMessage EXCEPT !.kind = "ohlc", !.pair = x, !.ohlc_data = o] :
        x \in ExchangePairs, o \in OhlcPayloads}

\* an empty message, text that is no JSON, a status event, another channel
OtherMessages ==
    {[NoMessage EXCEPT !.kind = k] : k \in {"empty", "invalid json", "event", "trade"}}

MsgInit == SymOff /\ ClientInit /\ CacheInit /\ NoOrchestrator

TickerNext ==
    \/ \E m \in TickerMessages \cup OtherMessages : ProcessMessage(m)
    \/ RegisterObserver

OhlcNext == \E m \in OhlcMessages \cup OtherMessages : ProcessMessage(m)

SpecTicker == MsgInit /\ [][TickerNext]_vars

SpecOhlc == MsgInit /\ [][OhlcNext]_vars

\* a ticker message whose payload has the four keys, each with the items the
\* code reads, all of them decimal numbers
WellFormedTicker(m) ==
    /\ m.kind = "ticker"
    /\ \A key \in {m.price_data.c, m.price_data.v, m.price_data.l, m.price_data.h} :
            key # Absent /\ Len(key) = 2
    /\ Decimal(m.price_data.c[1]).ok
    /\ Decimal(m.price_data.v[2]).ok
    /\ Decimal(m.price_data.l[2]).ok
    /\ Decimal(m.price_data.h[2]).ok

\* C8: processing a well-formed ticker message for exchange pair X overwrites the
\* snapshot of the canonical symbol of X with the message's last price, volume,
\* low and high, and the registered observer is called exactly once with that
\* symbol and that snapshot; when it is called get_latest_price(symbol) is
\* already the new price.
C8_TickerHandling ==
    [][(WellFormedTicker(msg') /\ on_price_update # None) =>
          LET symbol == _reverse_format_symbol(msg'.pair).val
              data   == [price     |-> Decimal(msg'.price_data.c[1]).val,
                         timestamp |-> msg'.now,
                         volume    |-> Decimal(msg'.price_data.v[2]).val,
                         low       |-> Decimal(msg'.price_data.l[2]).val,
                         high      |-> Decimal(msg'.price_data.h[2]).val]
          IN  /\ price_data' = DictSet(price_data, symbol, data)
              /\ observer_calls' =
                    <<[symbol |-> symbol, data |-> data, latest |-> data.price]>>
              /\ get_latest_price(price_data', symbol) = data.price
      ]_vars

\* the ticker c = ["50000.00000", "0.001"] for XBT/USDT reaches the observer as
\* BTC/USDT at 50000
C8_Witness ==
    /\ msg.kind = "ticker"
    /\ msg.pair = <<"XBT", "USDT">>
    /\ msg.price_data.c = <<"50000.00000", "0.001">>
    /\ Len(observer_calls) = 1
    /\ observer_calls[1].symbol = <<"BTC", "USDT">>
    /\ observer_calls[1].data.price = 50000
    /\ observer_calls[1].latest = 50000
    /\ price_data[<<"BTC", "USDT">>] = observer_calls[1].data

\* C5: after an OHLC message is processed, the series of its symbol has exactly
\* one candle with the message's timestamp and it holds the message's values;
\* if the timestamp was there already the series keeps its length and its other
\* candles, otherwise the candle is appended and the existing candles are
\* unchanged; the series of the other symbols are untouched.
C5_CandleUpsert ==
    [][(msg'.kind = "ohlc" /\ Candle(msg'.ohlc_data).ok) =>
          LET symbol == _reverse_format_symbol(msg'.pair).val
              candle == Candle(msg'.ohlc_data).val
              old    == IF symbol \in DOMAIN ohlcv_data THEN ohlcv_data[symbol] ELSE <<>>
              new    == ohlcv_data'[symbol]
              hit    == {i \in 1..Len(old) : old[i].timestamp = candle.timestamp}
          IN  /\ DOMAIN ohlcv_data' = DOMAIN ohlcv_data \cup {symbol}
              /\ \A other \in DOMAIN ohlcv_data \ {symbol} :
                    ohlcv_data'[other] = ohlcv_data[other]
              /\ Cardinality({i \in 1..Len(new) :
                                new[i].timestamp = candle.timestamp}) = 1
              /\ \A i \in 1..Len(new) :
                    new[i].timestamp = candle.timestamp => new[i] = candle
              /\ IF hit = {} THEN new = Append(old, candle)
                 ELSE /\ Len(new) = Len(old)
                      /\ \A i \in 1..Len(old) : i \notin hit => new[i] = old[i]
      ]_vars

\* the candle of 1617592800 was sent again with other values after the candle
\* of 1617592860 had arrived: still two candles, the first one with the new values
C5_Witness ==
    /\ msg.kind = "ohlc"
    /\ msg.pair = <<"XBT", "USDT">>
    /\ msg.ohlc_data = <<"1617592800", "2", "3", "2", "3", "2", "200">>
    /\ <<"BTC", "USDT">> \in DOMAIN ohlcv_data
    /\ Len(ohlcv_data[<<"BTC", "USDT">>]) = 2
    /\ ohlcv_data[<<"BTC", "USDT">>][1] =
          [timestamp |-> 1617592800, open |-> 2, high |-> 3, low |-> 2,
           close |-> 3, volume |-> 200]
    /\ ohlcv_data[<<"BTC", "USDT">>][2].timestamp = 1617592860

(***************************************************************************)
(* Specification SpecOrch: an orchestrator, TradingBot in either mode or   *)
(* MultiCoinTradingBot, over two symbols with its client.  The outcomes of *)
(* the connection and of the history request, the scores, the tickers, the *)
(* signals and the executor's market data are chosen by the environment.   *)
(* Specification SpecHyst: the start and the analysis loop of the          *)
(* multi-coin orchestrators over three symbols.                            *)
(***************************************************************************)
OrchScores == {50, 90}

OrchPrices == {"1", "2"}

OrchTickers ==
    {[NoMessage EXCEPT !.kind = "ticker", !.pair = x, !.now = 1,
                       !.price_data = [c |-> <<p, "1">>, v |-> <<"100", "200">>,
                                       l |-> <<"1", "1">>, h |-> <<"2", "2">>]] :
        x \in ExchangePairs, p \in OrchPrices}

ClosePrices == {1}

\* the client of a new orchestrator
OrchClientInit ==
    /\ SymOff
    /\ ClientInit
    /\ price_data = EmptyDict
    /\ ohlcv_data = EmptyDict
    /\ observer_calls = <<>>
    /\ msg = NoMessage

OrchInit ==
    /\ OrchClientInit
    /\ \/ \E single \in BOOLEAN : OrchestratorInit("TradingBot", single, <<BTC, ETH>>)
       \/ OrchestratorInit("MultiCoinTradingBot", FALSE, <<BTC, ETH>>)

OrchNext ==
    \/ \E connected \in BOOLEAN : \E fetched \in SUBSET Range(symbols) :
          \E sc \in [fetched -> OrchScores] : StartTradingBot(connected, fetched, sc)
    \/ \E connected \in BOOLEAN : \E fetched \in SUBSET Range(symbols) :
          \E sc \in [fetched -> OrchScores] : StartMultiCoin(connected, fetched, sc)
    \/ \E sc \in [Range(coin_data) -> OrchScores] : AnalysisTradingBot(sc)
    \/ \E sc \in [Range(coin_data) -> OrchScores] : \E fresh \in BOOLEAN :
          AnalysisMultiCoin(sc, fresh)
    \/ \E signal \in {1, 0, -1} : TradeTradingBot(signal)
    \/ \E signal \in {1, 0, -1} : \E has_data \in BOOLEAN : \E close \in ClosePrices :
          TradeMultiCoin(has_data, close, signal)
    \/ \E m \in OrchTickers : DeliverTicker(m)

SpecOrch == OrchInit /\ [][OrchNext]_vars

HystInit ==
    /\ OrchClientInit
    /\ \/ OrchestratorInit("TradingBot", FALSE, <<BTC, ETH, SOL>>)
       \/ OrchestratorInit("MultiCoinTradingBot", FALSE, <<BTC, ETH, SOL>>)

HystNext ==
    \/ \E connected \in BOOLEAN : \E fetched \in SUBSET Range(symbols) :
          \E sc \in [fetched -> Scores] : StartTradingBot(connected, fetched, sc)
    \/ \E connected \in BOOLEAN : \E fetched \in SUBSET Range(symbols) :
          \E sc \in [fetched -> Scores] : StartMultiCoin(connected, fetched, sc)
    \/ \E sc \in [Range(coin_data) -> Scores] : AnalysisTradingBot(sc)
    \/ \E sc \in [Range(coin_data) -> Scores] : \E fresh \in BOOLEAN :
          AnalysisMultiCoin(sc, fresh)

SpecHyst == HystInit /\ [][HystNext]_vars

\* available + sum of allocated + sum of (position * latest cached price)
Total ==
    available_balance
    + allocated_balances[BTC] + allocated_balances[ETH] + allocated_balances[SOL]
    + positions[BTC] * LatestPrice(BTC) + positions[ETH] * LatestPrice(ETH)
    + positions[SOL] * LatestPrice(SOL)

Margin == IF bot = "TradingBot" THEN TradingBotMargin ELSE AnalyzerMargin

Settled(active, scores) ==
    /\ active # NoSymbol
    /\ scores[active] # NoScore
    /\ \A s \in AllSymbols : scores[s] <= scores[active]

\* C33: a switch of the analysis loop leaves an active symbol that has a score
\* and that no symbol outscores, and an iteration that finds such an active
\* symbol and leaves the scores as they are does not switch, ties for the best
\* score included: while the scores stay unchanged there is no second switch
C33_NoOscillation ==
    /\ [](last_op.op = "switch" => Settled(active_symbol, opportunity_scores))
    /\ [][(/\ last_op'.op \in {"analysis", "switch"}
            /\ opportunity_scores' = opportunity_scores
            /\ Settled(active_symbol, opportunity_scores))
              => active_symbol' = active_symbol]_vars

\* TradingBot left BTC at 70 for ETH when ETH and SOL tied at 85, and a later
\* iteration can run on these scores
C33_Witness ==
    /\ bot = "TradingBot"
    /\ last_op = Op("switch", BTC, FALSE)
    /\ active_symbol = ETH
    /\ opportunity_scores[BTC] = 70
    /\ opportunity_scores[ETH] = 85
    /\ opportunity_scores[SOL] = 85

C9_SwitchAllocation ==
    [][(/\ active_symbol' # active_symbol
        /\ active_symbol # NoSymbol
        /\ positions[active_symbol] = 0)
       => LET funds == available_balance + allocated_balances[active_symbol]
          IN  /\ allocated_balances'[active_symbol'] = (AllocationTenths * funds) \div 10
              /\ available_balance' = funds - allocated_balances'[active_symbol']
              /\ allocated_balances'[active_symbol] = 0]_vars

\* MultiCoinTradingBot left BTC, which had no position, for ETH with f = 0.7
\* and P + A = 1000
C9_Witness ==
    /\ bot = "MultiCoinTradingBot"
    /\ last_op = Op("switch", BTC, FALSE)
    /\ positions[BTC] = 0
    /\ active_symbol = ETH
    /\ allocated_balances[ETH] = 700
    /\ available_balance = 300
    /\ allocated_balances[BTC] = 0

\* C10: at most one symbol has a non-zero allocated balance, and it is the
\* Active symbol
C10_SingleAllocation ==
    \A s \in AllSymbols : allocated_balances[s] # 0 => s = active_symbol

\* C37: right after the construction of the orchestrator, in single-coin mode
\* and in multi-coin mode, available_balance + the sum of allocated_balances
\* is initial_balance
C37_InitialCapital ==
    bot # "none" /\ phase = "new" /\ last_op.op = "none"
       => available_balance + allocated_balances[BTC] + allocated_balances[ETH]
          + allocated_balances[SOL] = InitialBalance

\* a switch that sold the position of the symbol it left, after start and trades
C10_Witness ==
    /\ last_op.op = "switch"
    /\ last_op.sold
    /\ total_trades > 0
    /\ allocated_balances[active_symbol] > 0
    /\ allocated_balances[last_op.old] = 0

\* C11: every buy or sell of a TradingLoop iteration is for the Active
\* symbol, which has an allocated balance > 0 and a cached price > 0 at that
\* moment; no other step changes a position, except a switch that sells the
\* position of the symbol it leaves
C11_TradesActiveOnly ==
    [][/\ last_op'.op \in {"buy", "sell"}
          => /\ active_symbol # NoSymbol
             /\ active_symbol' = active_symbol
             /\ allocated_balances[active_symbol] > 0
             /\ LatestPrice(active_symbol) > 0
             /\ \A s \in AllSymbols \ {active_symbol} : positions'[s] = positions[s]
       /\ positions' # positions
          => \/ last_op'.op \in {"buy", "sell"}
             \/ last_op'.op = "switch" /\ last_op'.sold]_vars

\* tickers whose last trade price is "1" or "0"
IdleTickers ==
    {[NoMessage EXCEPT !.kind = "ticker", !.pair = x, !.now = 1,
                       !.price_data = [c |-> <<p, "1">>, v |-> <<"100", "200">>,
                                       l |-> <<"1", "1">>, h |-> <<"2", "2">>]] :
        x \in ExchangePairs, p \in {"0", "1"}}

IdleInit ==
    /\ OrchClientInit
    /\ \/ OrchestratorInit("TradingBot", FALSE, <<BTC, ETH>>)
       \/ OrchestratorInit("MultiCoinTradingBot", FALSE, <<BTC, ETH>>)

\* the multi-coin orchestrators under tickers that may carry the price 0
IdleNext ==
    \/ \E connected \in BOOLEAN : \E fetched \in SUBSET Range(symbols) :
          \E sc \in [fetched -> OrchScores] : StartTradingBot(connected, fetched, sc)
    \/ \E connected \in BOOLEAN : \E fetched \in SUBSET Range(symbols) :
          \E sc \in [fetched -> OrchScores] : StartMultiCoin(connected, fetched, sc)
    \/ \E sc \in [Range(coin_data) -> OrchScores] : AnalysisTradingBot(sc)
    \/ \E sc \in [Range(coin_data) -> OrchScores] : \E fresh \in BOOLEAN :
          AnalysisMultiCoin(sc, fresh)
    \/ \E signal \in {1, 0, -1} : TradeTradingBot(signal)
    \/ \E signal \in {1, 0, -1} : \E has_data \in BOOLEAN : \E close \in ClosePrices :
          TradeMultiCoin(has_data, close, signal)
    \/ \E m \in IdleTickers : DeliverTicker(m)

SpecIdle == IdleInit /\ [][IdleNext]_vars

\* C38: a symbol that is not the Active symbol holds no open position; after a
\* switch the position of the symbol that was left is zero, with or without a
\* cached price for it
C38_IdleHoldsNothing ==
    \A s \in AllSymbols \ {active_symbol} : positions[s] = 0

\* a TradingLoop iteration has bought for the Active symbol
C11_Witness ==
    /\ last_op.op = "buy"
    /\ active_symbol # NoSymbol
    /\ positions[active_symbol] > 0
    /\ LatestPrice(active_symbol) > 0

(***************************************************************************)
(* Specification SpecAtomic: the multi-coin orchestrators with             *)
(* _switch_active_coin taken statement by statement.  The loops and the    *)
(* read loop are coroutines of one event loop: another coroutine runs only *)
(* while the one that runs is suspended at an await.                       *)
(***************************************************************************)
SuspendedAnywhereMutant(pc) == TRUE

\* the places of _switch_active_coin at which it is suspended: its body holds
\* no await, so only before it is called and after it has returned
Suspended(pc) == pc = "idle"

\* the symbol an analysis iteration decides to switch to, NoSymbol for none
Decision(scores, order) ==
    IF bot = "TradingBot"
    THEN IF Scored(scores, order) = <<>> THEN NoSymbol
         ELSE _should_change_coin(scores, order)
    ELSE IF ~Conclusive(scores, order) THEN NoSymbol
         ELSE IF active_symbol = NoSymbol THEN Best(scores, order)
         ELSE should_change_coin(scores, order, active_symbol)

\* an iteration of the analysis loop up to its call of _switch_active_coin
DecideSwitch(sc, fresh) ==
    /\ bot \in {"TradingBot", "MultiCoinTradingBot"} /\ ~single_coin_mode
    /\ phase = "running"
    /\ switching.pc = "idle"
    /\ bot = "TradingBot" => fresh
    /\ LET scores == IF fresh THEN Rescored(opportunity_scores, coin_data, sc)
                     ELSE opportunity_scores
           better == Decision(scores, coin_data)
       IN  /\ opportunity_scores' = scores
           /\ _analysis_complete' =
                 IF bot = "TradingBot" THEN _analysis_complete
                 ELSE (_analysis_complete \/ Conclusive(scores, coin_data))
           /\ switching' = IF better # NoSymbol /\ better # active_symbol
                           THEN [pc |-> "called", new_symbol |-> better]
                           ELSE NoSwitch
    /\ last_op' = Op("analysis", NoSymbol, FALSE)
    /\ UNCHANGED <<tasks, ledger, fetch, pnl, analyzer, bot, single_coin_mode, symbols, phase,
                   active_symbol, available_balance, allocated_balances, positions,
                   cash, current_prices, buys, coin_data, total_trades,
                   symVars, connVars, msgVars>>

\* _switch_active_coin: the early return, or the sale of the old position
SwitchLiquidate ==
    /\ switching.pc = "called"
    /\ IF switching.new_symbol \notin Range(symbols)
       THEN /\ switching' = NoSwitch
            /\ UNCHANGED <<allocated_balances, positions, cash, total_trades, last_op>>
       ELSE LET r == Switched(switching.new_symbol)
                old == active_symbol
            IN  /\ switching' = [switching EXCEPT !.pc = "sold"]
                /\ positions' = r.positions
                /\ cash' = r.cash
                /\ total_trades' = r.trades
                /\ allocated_balances' =
                      IF r.op.sold /\ bot = "TradingBot"
                      THEN [allocated_balances EXCEPT
                               ![old] = @ + LatestPrice(old) * positions[old]]
                      ELSE allocated_balances
                /\ last_op' = Op("switching", old, r.op.sold)
    /\ UNCHANGED <<tasks, ledger, fetch, pnl, analyzer, bot, single_coin_mode, symbols, phase,
                   active_symbol, available_balance, current_prices, buys, coin_data,
                   opportunity_scores, _analysis_complete, symVars, connVars, msgVars>>

\* _switch_active_coin: the old allocation goes back to the pool
SwitchRelease ==
    /\ switching.pc = "sold"
    /\ switching' = [switching EXCEPT !.pc = "released"]
    /\ IF active_symbol = NoSymbol
       THEN UNCHANGED <<available_balance, allocated_balances>>
       ELSE /\ available_balance' =
                  Pooled(available_balance, allocated_balances[active_symbol])
            /\ allocated_balances' = Released(allocated_balances, active_symbol)
    /\ UNCHANGED <<tasks, ledger, fetch, pnl, analyzer, bot, single_coin_mode, symbols, phase,
                   active_symbol, positions, cash, total_trades, last_op,
                   current_prices, buys, coin_data, opportunity_scores,
                   _analysis_complete, symVars, connVars, msgVars>>

\* _switch_active_coin: "self.active_symbol = new_symbol"
SwitchActivate ==
    /\ switching.pc = "released"
    /\ switching' = [switching EXCEPT !.pc = "activated"]
    /\ active_symbol' = switching.new_symbol
    /\ UNCHANGED <<tasks, ledger, fetch, pnl, analyzer, bot, single_coin_mode, symbols, phase,
                   available_balance, allocated_balances, positions, cash,
                   total_trades, last_op, current_prices, buys, coin_data,
                   opportunity_scores, _analysis_complete, symVars, connVars, msgVars>>

\* _switch_active_coin: the allocation of the new symbol, and the return
SwitchAllocate ==
    /\ switching.pc = "activated"
    /\ switching' = NoSwitch
    /\ LET allocation == (available_balance * AllocationTenths) \div 10
       IN  /\ allocated_balances' =
                 [allocated_balances EXCEPT ![active_symbol] = allocation]
           /\ available_balance' = available_balance - allocation
    /\ last_op' = Op("switch", last_op.old, last_op.sold)
    /\ UNCHANGED <<tasks, ledger, fetch, pnl, analyzer, bot, single_coin_mode, symbols, phase,
                   active_symbol, positions, cash, total_trades, current_prices,
                   buys, coin_data, opportunity_scores, _analysis_complete,
                   symVars, connVars, msgVars>>

\* the tickers of SpecAtomic carry one price
AtomicTickers == {m \in OrchTickers : m.price_data.c[1] = "1"}

AtomicInit ==
    /\ OrchClientInit
    /\ \/ OrchestratorInit("TradingBot", FALSE, <<BTC, ETH>>)
       \/ OrchestratorInit("MultiCoinTradingBot", FALSE, <<BTC, ETH>>)

AtomicNext ==
    \/ \E connected \in BOOLEAN : \E fetched \in SUBSET Range(symbols) :
          \E sc \in [fetched -> OrchScores] : StartTradingBot(connected, fetched, sc)
    \/ \E connected \in BOOLEAN : \E fetched \in SUBSET Range(symbols) :
          \E sc \in [fetched -> OrchScores] : StartMultiCoin(connected, fetched, sc)
    \/ \E sc \in [Range(coin_data) -> OrchScores] : \E fresh \in BOOLEAN :
          DecideSwitch(sc, fresh)
    \/ SwitchLiquidate
    \/ SwitchRelease
    \/ SwitchActivate
    \/ SwitchAllocate
    \/ \E signal \in {1, 0, -1} :
          Suspended(switching.pc) /\ TradeTradingBot(signal)
    \/ \E signal \in {1, 0, -1} : \E has_data \in BOOLEAN : \E close \in ClosePrices :
          Suspended(switching.pc) /\ TradeMultiCoin(has_data, close, signal)
    \/ \E m \in AtomicTickers : Suspended(switching.pc) /\ DeliverTicker(m)

SpecAtomic == AtomicInit /\ [][AtomicNext]_vars

\* C12: a TradingLoop iteration runs only when no switch is in progress: the
\* Active symbol it reads has its allocation, and the iteration writes the
\* allocation of no other symbol and leaves the Active symbol alone
C12_SwitchAtomic ==
    [][last_op'.op \in {"buy", "sell", "hold"}
       => /\ switching.pc = "idle"
          /\ switching'.pc = "idle"
          /\ active_symbol' = active_symbol
          /\ allocated_balances[active_symbol] > 0
          /\ \A s \in AllSymbols \ {active_symbol} :
                allocated_balances'[s] = allocated_balances[s]]_vars

\* a switch is in progress, between the sale of the old position and the
\* release of the old allocation, and the TradingLoop's conditions hold
C12_Witness ==
    /\ switching.pc = "sold"
    /\ last_op = Op("switching", active_symbol, TRUE)
    /\ allocated_balances[active_symbol] > 0
    /\ ValidPrice(LatestPrice(active_symbol))
    /\ bot = "MultiCoinTradingBot" => _analysis_complete

\* C13: when connect() establishes a new connection, a subscribe frame has
\* been sent on the new socket for every symbol that was subscribed before, the
\* attempt counter is 0 and the read loop is running
C13_ResubscribeOnReconnect ==
    [][(ws' # ws /\ ws' # NoSocket)
       => /\ \A pair \in subscriptions :
                \E i \in 1..Len(sent_messages') :
                   sent_messages'[i] = TickerFrame(ws', pair)
          /\ _reconnect_attempts' = 0
          /\ reader'.pc \notin {"none", "done"}]_vars

\* C14: after a connection-closed signal the read loop makes one connection
\* attempt: once it is made the read loop receives again or, the attempt having
\* failed, has terminated with running False
C14_SingleReconnect ==
    (reader.ret = "reconnect" /\ reader.attempts >= 1)
       => /\ reader.attempts = 1
          /\ reader.pc \in {"recv", "done"}
          /\ reader.pc = "done" /\ reader.conn = "False" => ~running

\* C20: the reconnect-attempt counter never exceeds the configured maximum, and
\* it is 0 when a connect(), of a caller or of the read loop, returns success
C20_CounterBounded ==
    /\ [](_reconnect_attempts <= _max_reconnect_attempts)
    /\ [][(\/ call'.conn = "True" /\ call.conn # "True"
           \/ reader'.conn = "True" /\ reader.conn # "True")
             => _reconnect_attempts' = 0]_vars

\* a step in which the orchestrator calls connect()
ConnectCalled ==
    /\ call.op = "none"
    /\ call' # call
    /\ call'.op \in {"none", "connect"}
    /\ call'.symbol = <<"">>
    /\ call'.result = "none"

\* C21: connect() called with a socket that answers the ping returns True and
\* opens no socket, sends no frame and starts no read-loop task; the socket,
\* the subscription set and the running flag stay as they are
C21_ConnectIdempotent ==
    [][(ConnectCalled /\ ws # NoSocket /\ ws \in open_sockets)
          => /\ call'.op = "none" /\ call'.conn = "True" /\ call'.attempts = 0
             /\ UNCHANGED <<ws, open_sockets, sockets_opened, sent_messages,
                            reader, subscriptions, running>>]_vars

\* connect() has returned True on the socket of an earlier connect(), the only
\* socket ever opened, with a subscription made and the read loop receiving
C21_Witness ==
    /\ call.op = "none" /\ call.conn = "True" /\ call.attempts = 0
    /\ call.symbol = <<"">> /\ call.result = "none"
    /\ ws = 1 /\ sockets_opened = 1 /\ ws \in open_sockets
    /\ subscriptions # {}
    /\ Len(sent_messages) = 1
    /\ reader.pc = "recv"
    /\ running

\* the read-loop tasks of the client that are alive
AliveReaders == (IF reader.pc \in {"none", "done"} THEN 0 ELSE 1) + reader.orphans

\* C22: at most one read-loop task of the client is alive in every state,
\* whatever the interleaving of connect() and subscribe calls, reconnects of
\* the read loop, and close() followed by a new connect()
C22_SingleReader == AliveReaders <= 1

\* close() has ended the read loop of the first connection and a later
\* connect() has started the one that receives on the second socket
C22_Witness ==
    /\ sockets_opened = 2 /\ ws = 2
    /\ call.op = "none" /\ call.conn = "True" /\ call.attempts = 1
    /\ reader.pc = "recv" /\ reader.sock = 2
    /\ reader.ret = "loop" /\ reader.attempts = 0
    /\ AliveReaders = 1
    /\ running

\* C23: the candles of every symbol have strictly ascending, hence unique,
\* timestamps, also when the OHLC messages arrive out of timestamp order
C23_CandleOrder ==
    \A symbol \in DOMAIN ohlcv_data :
        \A i, j \in 1..Len(ohlcv_data[symbol]) :
            i < j => ohlcv_data[symbol][i].timestamp < ohlcv_data[symbol][j].timestamp

\* a length the series of the model reach with a candle to spare: one less
\* than the number of timestamps the OHLC messages carry
SeriesBound == Cardinality({IntTable[i][2] : i \in 1..Len(IntTable)}) - 1

\* C24: the series of a symbol is never longer than a fixed bound: a candle
\* with a new timestamp that arrives at the bound evicts the oldest one
C24_CandleBound ==
    \A symbol \in DOMAIN ohlcv_data : Len(ohlcv_data[symbol]) <= SeriesBound

(***************************************************************************)
(* Specification SpecRead: a connected client whose read loop is fed with  *)
(* messages, malformed ones among them, with no observer, with the         *)
(* orchestrator's observer and with an observer that raises.               *)
(***************************************************************************)
NoException == "none"

\* the classes below Exception that the statements of _process_message and an
\* observer raise
Exceptions == {"JSONDecodeError", "ValueError", "InvalidOperation", "KeyError",
               "IndexError", "RuntimeError"}

\* the exception raised inside the try block of _process_message (lines
\* 212-285), NoException if it runs to its end
Thrown(m) ==
    LET std    == _reverse_format_symbol(m.pair)
        snap   == Snapshot(m.price_data, m.now)
        candle == Candle(m.ohlc_data)
    IN  CASE m.kind = "invalid json" -> "JSONDecodeError"      \* json.loads
          [] m.kind = "short"        -> "IndexError"           \* data[3]
          [] m.kind = "ticker" ->
                IF m.price_data.c = Absent THEN NoException
                ELSE IF ~std.ok THEN std.val[1]
                ELSE IF ~snap.ok THEN snap.val[1]
                ELSE IF on_price_update = "raises" THEN "RuntimeError"
                ELSE NoException
          [] m.kind = "ohlc" ->
                IF ~std.ok THEN std.val[1]
                ELSE IF ~candle.ok THEN candle.val[1]
                ELSE NoException
          [] OTHER -> NoException

JsonErrorsOnlyMutant(e) == e = "JSONDecodeError"

\* the except clauses of _process_message, lines 287-290
Caught(e) == e = "JSONDecodeError" \/ e \in Exceptions

\* the exception _process_message(m) raises to its caller
Escaped(m) == IF Thrown(m) = NoException \/ Caught(Thrown(m)) THEN NoException
              ELSE Thrown(m)

\* _message_handler: recv returns m and _process_message(m) runs (lines
\* 185-187); an exception it raised is logged and the loop sleeps (196-199)
ReaderRecvMessage(m) ==
    /\ reader.pc = "recv"
    /\ reader.sock \in open_sockets
    /\ _process_message(m)
    /\ reader' = [reader EXCEPT !.pc = IF Escaped(m) = NoException THEN "top"
                                       ELSE "sleep"]
    /\ UNCHANGED <<ws, open_sockets, sockets_opened, running, subscriptions,
                   sent_messages, _reconnect_attempts, call, symVars, orchVars>>

\* client.on_price_update = an observer that raises when it is called
RegisterRaisingObserver ==
    /\ on_price_update # "raises"
    /\ on_price_update' = "raises"
    /\ observer_calls' = <<>>
    /\ msg' = NoMessage
    /\ UNCHANGED <<price_data, ohlcv_data, notMsg>>

ReadMessages ==
    {m \in TickerMessages : m.now = 1}
    \cup {m \in OhlcMessages : /\ m.pair = <<"XBT", "USDT">>
                               /\ m.ohlc_data[1] = "1617592800"}
    \cup OtherMessages
    \cup {[NoMessage EXCEPT !.kind = "short"]}

ReadNext ==
    \/ CallConnect
    \/ CallerDialSucceeds
    \/ ReaderTop
    \/ \E m \in ReadMessages : ReaderRecvMessage(m)
    \/ RegisterObserver
    \/ RegisterRaisingObserver

SpecRead == ConnInit /\ [][ReadNext]_vars

\* the read loop has taken this message from the socket
Taken(m) == reader.pc = "recv" /\ reader'.pc # "recv" /\ msg' = m

\* C15: whatever the message (no JSON, an unknown shape, a list too short for
\* the pair name, a payload with missing or non-numeric fields, an observer
\* that raises), _process_message raises nothing: the read loop is back at the
\* head of its loop with running True and its socket, from where it receives
\* the next message
C15_MalformedNotFatal ==
    [][/\ \A m \in ReadMessages : Taken(m)
             => reader'.pc = "top" /\ running' /\ ws' = ws /\ ws' # NoSocket
       /\ (reader.pc = "top" /\ reader'.pc # "top" /\ msg # NoMessage)
             => reader'.pc = "recv" /\ reader'.sock = ws]_vars

\* the observer was called with a ticker and raised, and the read loop awaits
\* the next message
C15_Witness ==
    /\ on_price_update = "raises"
    /\ Len(observer_calls) = 1
    /\ msg.kind = "ticker"
    /\ reader.pc = "recv"

(***************************************************************************)
(* Specification SpecFetch: fetch_historical_data for every list of        *)
(* distinct symbols and every answer of the REST API to each request.      *)
(* fetch.responses holds the answers the requests so far have got, one per *)
(* request; a candle of an answer is "row" (eight numeric fields) or       *)
(* "bad" (a row the unpacking or float() rejects).                         *)
(***************************************************************************)
notFetch == <<symVars, connVars, msgVars,
              bot, single_coin_mode, symbols, phase, active_symbol,
              available_balance, allocated_balances, positions, cash,
              current_prices, buys, coin_data, opportunity_scores,
              _analysis_complete, total_trades, last_op, switching, tasks, ledger, pnl, analyzer>>

MaxCandles == 2

\* the lists of at most n distinct symbols
SymbolLists(n) ==
    {list \in UNION {[1..k -> AllSymbols] : k \in 0..n} :
        \A i, j \in 1..Len(list) : i # j => list[i] # list[j]}

OhlcRows == UNION {[1..k -> {"row", "bad"}] : k \in 0..MaxCandles}

\* what session.get and response.json() give for one request
Responses ==
    {[status |-> 200, error |-> FALSE, ohlc_data |-> rows] : rows \in OhlcRows}
    \cup {[status |-> 200, error |-> TRUE, ohlc_data |-> <<>>],     \* "error": [...]
          [status |-> 500, error |-> FALSE, ohlc_data |-> <<>>],    \* HTTP 500
          [status |-> 0, error |-> FALSE, ohlc_data |-> <<>>]}      \* ClientError

\* the candles converted before the first one that raises (lines 376-385)
RECURSIVE Converted(_)
Converted(rows) ==
    IF rows = <<>> \/ Head(rows) = "bad" THEN <<>>
    ELSE <<Head(rows)>> \o Converted(Tail(rows))

\* the request got its candles: status 200, no error, rows, all of them converted
Succeeded(response) ==
    /\ response.status = 200
    /\ ~response.error
    /\ response.ohlc_data # <<>>
    /\ Converted(response.ohlc_data) = response.ohlc_data

\* fetch_historical_data(symbols) up to its first request
CallFetch(list) ==
    /\ fetch.pc = "idle"
    /\ fetch' = [NoFetch EXCEPT !.pc = "loop", !.requested = list]
    /\ UNCHANGED notFetch

\* one turn of the loop of lines 351-401 for the symbol requested[n + 1]
FetchSymbol(response) ==
    /\ fetch.pc = "loop"
    /\ Len(fetch.responses) < Len(fetch.requested)
    /\ LET n      == Len(fetch.responses)
           symbol == fetch.requested[n + 1]
           listed == /\ response.status = 200
                     /\ ~response.error
                     /\ response.ohlc_data # <<>>
       IN  fetch' = [fetch EXCEPT
                !.responses = Append(@, response),
                !.historical_data =
                    IF listed THEN DictSet(@, symbol, Converted(response.ohlc_data))
                    ELSE @,
                !.failed_symbols =
                    IF Succeeded(response) THEN @ ELSE Append(@, symbol)]
    /\ UNCHANGED notFetch

\* lines 403-411
FetchReturn ==
    /\ fetch.pc = "loop"
    /\ Len(fetch.responses) = Len(fetch.requested)
    /\ fetch' = [fetch EXCEPT
            !.pc = "returned",
            !.returned = IF Len(fetch.failed_symbols) = Len(fetch.requested)
                         THEN "False" ELSE "historical_data"]
    /\ UNCHANGED notFetch

MaxFetch == 2

FetchNext ==
    \/ \E list \in SymbolLists(MaxFetch) : CallFetch(list)
    \/ \E response \in Responses : FetchSymbol(response)
    \/ FetchReturn

SpecFetch == ConnInit /\ [][FetchNext]_vars

\* the symbols whose request succeeded
Successful == {fetch.requested[i] : i \in {j \in 1..Len(fetch.responses) :
                                              Succeeded(fetch.responses[j])}}

\* C16: when fetch_historical_data returns, every symbol has had its request
\* whatever the others got; it returns False if every symbol failed and
\* otherwise a non-empty map of exactly the symbols that succeeded
C16_FetchIsolation ==
    fetch.pc = "returned" =>
       /\ Len(fetch.responses) = Len(fetch.requested)
       /\ fetch.returned = "False" <=> Successful = {}
       /\ fetch.returned = "historical_data"
             => /\ DOMAIN fetch.historical_data = Successful
                /\ fetch.historical_data # <<>>

\* C39: when fetch_historical_data returns, every requested symbol is a key of
\* the result map or is recorded as failed, and never both; it returns False
\* only with an empty result map
C39_FetchPartition ==
    fetch.pc = "returned" =>
       /\ \A s \in Range(fetch.requested) :
             (s \in DOMAIN fetch.historical_data) # (s \in Range(fetch.failed_symbols))
       /\ fetch.returned = "False" => fetch.historical_data = <<>>

(***************************************************************************)
(* Specification SpecLedger: a TradingSimulator on its own, its execute_buy *)
(* and execute_sell called with every symbol, price and volume of small    *)
(* sets, valid and not.  ledger.call is the call made last and             *)
(* ledger.returned its result: "True", "False", or the exception raised.   *)
(***************************************************************************)
notLedger == <<symVars, connVars, msgVars,
               bot, single_coin_mode, symbols, phase, active_symbol,
               available_balance, allocated_balances, positions, cash,
               current_prices, buys, coin_data, opportunity_scores,
               _analysis_complete, total_trades, last_op, switching, tasks, fetch, pnl, analyzer>>

LedgerBalance == 3       \* TradingSimulator(initial_balance)
MaxHistory == 2          \* no order once trades_history is this long

DictDel(d, k) == [x \in DOMAIN d \ {k} |-> d[x]]

\* self.positions.get(symbol, Decimal("0"))
Held(d, symbol) == IF symbol \in DOMAIN d THEN d[symbol] ELSE 0

AcceptAnySymbolMutant(symbol) == Ok(symbol)

\* TradingSimulator._validate_symbol: "" is <<>>, a symbol without '/' has
\* one part
_validate_symbol(symbol) ==
    IF symbol = <<>> THEN Raised("ValueError")
    ELSE IF NoSlash(symbol) THEN Raised("ValueError")
    ELSE Ok(symbol)

\* lines 41-47 and 85-91: the exception the checks raise, or the symbol
Validated(symbol, price, volume) ==
    IF ~_validate_symbol(symbol).ok THEN _validate_symbol(symbol)
    ELSE IF volume <= 0 THEN Raised("ValueError")
    ELSE IF price <= 0 THEN Raised("ValueError")
    ELSE Ok(symbol)

AlwaysSufficientMutant(available, amount) == TRUE

\* Balance.decrease: "if amount > self.available: return False"
Sufficient(available, amount) == ~(amount > available)

\* TradingSimulator(initial_balance); Balance raises unless it is positive
MakeLedger ==
    /\ ~ledger.made
    /\ LedgerBalance > 0
    /\ ledger' = [NoLedger EXCEPT !.made = TRUE, !.balance = LedgerBalance]
    /\ UNCHANGED notLedger

\* TradingSimulator.execute_buy
execute_buy(l, symbol, price, volume) ==
    LET cost == price * volume
        c    == [op |-> "buy", symbol |-> symbol, price |-> price, volume |-> volume]
    IN  IF ~Validated(symbol, price, volume).ok
        THEN [l EXCEPT !.call = c, !.returned = "ValueError"]
        ELSE IF ~Sufficient(l.balance, cost)
        THEN [l EXCEPT !.call = c, !.returned = "False"]
        ELSE [l EXCEPT !.call = c, !.returned = "True",
                       !.balance = @ - cost,
                       !.positions = DictSet(@, symbol, Held(@, symbol) + volume),
                       !.trades_history = Append(@,
                            [symbol |-> symbol, side |-> "buy", price |-> price,
                             volume |-> volume, amount |-> cost])]

\* TradingSimulator.execute_sell
execute_sell(l, symbol, price, volume) ==
    LET revenue == price * volume
        c       == [op |-> "sell", symbol |-> symbol, price |-> price, volume |-> volume]
        left    == l.positions[symbol] - volume
    IN  IF ~Validated(symbol, price, volume).ok
        THEN [l EXCEPT !.call = c, !.returned = "ValueError"]
        ELSE IF symbol \notin DOMAIN l.positions \/ l.positions[symbol] < volume
        THEN [l EXCEPT !.call = c, !.returned = "False"]
        ELSE [l EXCEPT !.call = c, !.returned = "True",
                       !.balance = @ + revenue,
                       !.positions = IF left = 0 THEN DictDel(@, symbol)
                                     ELSE DictSet(@, symbol, left),
                       !.trades_history = Append(@,
                            [symbol |-> symbol, side |-> "sell", price |-> price,
                             volume |-> volume, amount |-> revenue])]

Buy(symbol, price, volume) ==
    /\ ledger.made
    /\ Len(ledger.trades_history) < MaxHistory
    /\ ledger' = execute_buy(ledger, symbol, price, volume)
    /\ UNCHANGED notLedger

Sell(symbol, price, volume) ==
    /\ ledger.made
    /\ Len(ledger.trades_history) < MaxHistory
    /\ ledger' = execute_sell(ledger, symbol, price, volume)
    /\ UNCHANGED notLedger

LedgerSymbols == {BTC, ETH, <<"BTC">>, <<>>}
LedgerPrices == {0, 1, 2}
LedgerVolumes == {-1, 1, 2}

LedgerNext ==
    \/ MakeLedger
    \/ \E symbol \in LedgerSymbols, price \in LedgerPrices, volume \in LedgerVolumes :
          Buy(symbol, price, volume)
    \/ \E symbol \in LedgerSymbols, price \in LedgerPrices, volume \in LedgerVolumes :
          Sell(symbol, price, volume)

SpecLedger == ConnInit /\ [][LedgerNext]_vars

\* balance, positions and trade history are what they were
LedgerUnchanged ==
    /\ ledger'.balance = ledger.balance
    /\ ledger'.positions = ledger.positions
    /\ ledger'.trades_history = ledger.trades_history

\* the order is one the claim of input validation is about
InvalidOrder(c) ==
    c.price <= 0 \/ c.volume <= 0 \/ c.symbol = <<>> \/ Len(c.symbol) = 1

\* C17: execute_buy and execute_sell with a price <= 0, a volume <= 0, an empty
\* symbol or a symbol without '/' raise ValueError and leave the balance, the
\* positions and the trade history as they were
C17_InputValidation ==
    [][(ledger.made /\ ledger' # ledger /\ InvalidOrder(ledger'.call))
          => ledger'.returned = "ValueError" /\ LedgerUnchanged]_vars

\* a buy of an empty symbol was refused by a ledger that holds a position
C17_Witness ==
    /\ ledger.call.op = "buy"
    /\ ledger.call.symbol = <<>>
    /\ ledger.call.price > 0
    /\ ledger.call.volume > 0
    /\ ledger.returned = "ValueError"
    /\ ledger.trades_history # <<>>

\* the trade record an accepted order appends
TradeRecord(c) ==
    [symbol |-> c.symbol, side |-> c.op, price |-> c.price, volume |-> c.volume,
     amount |-> c.price * c.volume]

\* C18: a buy is accepted only with a balance of at least price x volume and a
\* sell only with a position of at least the volume; a rejected order returns
\* False and changes nothing, an accepted one moves balance and position
\* together and appends exactly one trade record; the balance and every
\* position are never negative
C18_Sufficiency ==
    /\ [](/\ ledger.balance >= 0
          /\ \A symbol \in DOMAIN ledger.positions : ledger.positions[symbol] >= 0)
    /\ [][(ledger.made /\ ledger' # ledger /\ ~InvalidOrder(ledger'.call))
          => LET c      == ledger'.call
                 amount == c.price * c.volume
                 enough == IF c.op = "buy" THEN ledger.balance >= amount
                           ELSE Held(ledger.positions, c.symbol) >= c.volume
                 sign   == IF c.op = "buy" THEN 1 ELSE -1
             IN  /\ ledger'.returned = (IF enough THEN "True" ELSE "False")
                 /\ ledger'.returned = "False" => LedgerUnchanged
                 /\ ledger'.returned = "True" =>
                       /\ ledger'.balance = ledger.balance - sign * amount
                       /\ Held(ledger'.positions, c.symbol) =
                             Held(ledger.positions, c.symbol) + sign * c.volume
                       /\ \A other \in AllSymbols \ {c.symbol} :
                             Held(ledger'.positions, other) = Held(ledger.positions, other)
                       /\ ledger'.trades_history =
                             Append(ledger.trades_history, TradeRecord(c))]_vars

\* a buy of 2 at 2 was rejected by a ledger that had bought before and has
\* less than 4 left
C18_Witness ==
    /\ ledger.call = [op |-> "buy", symbol |-> ETH, price |-> 2, volume |-> 2]
    /\ ledger.returned = "False"
    /\ Len(ledger.trades_history) = 1
    /\ ledger.trades_history[1].side = "buy"
    /\ ledger.balance < 4
    /\ ledger.balance + ledger.trades_history[1].amount = LedgerBalance

(***************************************************************************)
(* Specification SpecStop: start() and stop() of an orchestrator, called   *)
(* one after the other by main(), and its two loop tasks.  A loop is at    *)
(* the head of its while statement, asleep in an asyncio.sleep of a turn,   *)
(* waiting in a wait_for on the stop event, "done" (it returned) or        *)
(* "raised" (it ended with an exception its own handler does not catch or  *)
(* raised in turn).  The timers of the event *)
(* loop fire and an awaited call returns: the steps of a loop that is not  *)
(* asleep for ever and the steps of stop() are taken under weak fairness.  *)
(***************************************************************************)
notTasks == <<symVars, connVars, msgVars,
              bot, single_coin_mode, symbols, phase, active_symbol,
              available_balance, allocated_balances, positions, cash,
              current_prices, buys, coin_data, opportunity_scores,
              _analysis_complete, total_trades, last_op, switching, ledger, fetch, pnl, analyzer>>

MaxStops == 3            \* calls of start() and stop() by main()

Loops == {"analysis", "trading"}

Ended == {"none", "done", "raised"}

IgnoresStopMutant(stop_event) == FALSE

\* "while not self._stop_event.is_set()"
Observes(stop_event) == stop_event

\* start() up to its first await (trading_bot.py 96-103; multi_coin_bot.py 77-82)
StartCalled ==
    /\ tasks.start = "idle" /\ tasks.stop = "idle"
    /\ tasks.stops < MaxStops
    /\ ~tasks.is_running
    /\ tasks' = [tasks EXCEPT !.is_running = TRUE, !.stop_event = FALSE,
                              !.start = "awaiting"]
    /\ UNCHANGED notTasks

\* start() raises: no historical data (trading_bot.py 109-114)
StartRaises ==
    /\ tasks.start = "awaiting"
    /\ tasks' = [tasks EXCEPT !.start = "idle"]
    /\ UNCHANGED notTasks

\* start() creates the two tasks and returns (trading_bot.py 137-144)
StartReturns ==
    /\ tasks.start = "awaiting"
    /\ tasks' = [tasks EXCEPT !.start = "idle", !.analysis = "head", !.trading = "head"]
    /\ UNCHANGED notTasks

\* a loop tests the event at the head of its while statement and either
\* returns or runs one turn up to an asyncio.sleep: the sleeps of both loops of
\* TradingBot (trading_bot.py 167, 190, 194, 203, 214, 218) and the no-price
\* wait and the back-offs of MultiCoinTradingBot (multi_coin_bot.py 218, 229,
\* 257, 292, 307)
LoopTurn(loop) ==
    /\ tasks[loop] = "head"
    /\ tasks' = [tasks EXCEPT ![loop] = IF Observes(tasks.stop_event) THEN "done"
                                        ELSE "asleep"]
    /\ UNCHANGED notTasks

\* a turn of a loop of MultiCoinTradingBot up to the wait that ends it,
\* wait_for(self._stop_event.wait(), timeout) (multi_coin_bot.py 210-214,
\* 297-303)
LoopWaits(loop) ==
    /\ tasks[loop] = "head"
    /\ ~Observes(tasks.stop_event)
    /\ tasks' = [tasks EXCEPT ![loop] = "waiting"]
    /\ UNCHANGED notTasks

\* the timer of asyncio.sleep fires, or wait_for(self._stop_event.wait(),
\* timeout) returns, with the event set or at its timeout
LoopWakes(loop) ==
    /\ tasks[loop] \in {"asleep", "waiting"}
    /\ tasks' = [tasks EXCEPT ![loop] = "head"]
    /\ UNCHANGED notTasks

\* the task of a loop ends with an exception
LoopRaises(loop) ==
    /\ tasks[loop] \in {"head", "asleep", "waiting"}
    /\ tasks' = [tasks EXCEPT ![loop] = "raised"]
    /\ UNCHANGED notTasks

\* stop() up to its first await (trading_bot.py 146-154)
CallStop ==
    /\ tasks.start = "idle" /\ tasks.stop = "idle"
    /\ tasks.stops < MaxStops
    /\ tasks' = IF ~tasks.is_running
                THEN [tasks EXCEPT !.stops = @ + 1]
                ELSE [tasks EXCEPT !.stops = @ + 1, !.stop_event = TRUE,
                                   !.stop = "gather"]
    /\ UNCHANGED notTasks

\* asyncio.gather(*self._tasks, return_exceptions=True) returns, or there are
\* no tasks; stop() awaits self.client.close() (lines 153-156)
StopGathered ==
    /\ tasks.stop = "gather"
    /\ tasks.analysis \in Ended /\ tasks.trading \in Ended
    /\ tasks' = [tasks EXCEPT !.stop = "close"]
    /\ UNCHANGED notTasks

\* client.close() returns; is_running = False and the summary (lines 156-160)
StopCloses ==
    /\ tasks.stop = "close"
    /\ tasks' = [tasks EXCEPT !.stop = "idle", !.closed = @ + 1,
                              !.is_running = FALSE, !.summaries = @ + 1]
    /\ UNCHANGED notTasks

StopNext ==
    \/ StartCalled
    \/ StartRaises
    \/ StartReturns
    \/ \E loop \in Loops : LoopTurn(loop)
    \/ \E loop \in Loops : LoopWaits(loop)
    \/ \E loop \in Loops : LoopWakes(loop)
    \/ \E loop \in Loops : LoopRaises(loop)
    \/ CallStop
    \/ StopGathered
    \/ StopCloses

SpecStop ==
    /\ ConnInit
    /\ [][StopNext]_vars
    /\ \A loop \in Loops : WF_vars(LoopTurn(loop)) /\ WF_vars(LoopWakes(loop))
    /\ WF_vars(StopGathered)
    /\ WF_vars(StopCloses)

\* C19: a stop() called on a running orchestrator completes: both loops have
\* ended, by observing the event or with an exception, the client was closed,
\* is_running is False and the summary was emitted once for this call; a
\* stop() on an orchestrator that is not running changes nothing
C19_StopCompletes ==
    /\ \A n \in 1..MaxStops :
          (tasks.stop = "gather" /\ tasks.stops = n /\ tasks.summaries = n - 1)
             ~> /\ tasks.stop = "idle" /\ tasks.stops = n
                /\ tasks.analysis \in Ended /\ tasks.trading \in Ended
                /\ tasks.closed >= 1
                /\ ~tasks.is_running
                /\ tasks.summaries = n
    /\ [][(tasks'.stops # tasks.stops /\ ~tasks.is_running)
             => tasks' = [tasks EXCEPT !.stops = @ + 1]]_vars

\* stop() has completed on an orchestrator whose analysis loop had ended with
\* an exception and whose trading loop observed the event
C19_Witness ==
    /\ tasks.stop = "idle"
    /\ tasks.summaries = 1 /\ tasks.closed = 1
    /\ ~tasks.is_running
    /\ tasks.analysis = "raised"
    /\ tasks.trading = "done"

\* C28: every timed wait of a loop is one the stop signal ends, so that with
\* the signal set no loop is in a wait that only its timer ends; and once the
\* signal is set no loop begins another turn
C28_StopHonored ==
    /\ [](tasks.stop_event => \A loop \in Loops : tasks[loop] # "asleep")
    /\ [][(tasks.stop_event /\ tasks'.stop_event)
            => \A loop \in Loops :
                  tasks'[loop] \in {"asleep", "waiting"} => tasks'[loop] = tasks[loop]]_vars

\* C29: after close() returned, running is False, the socket is unset and no
\* read-loop task remains; and a read loop that got the connection-closed
\* signal while close() waits for it neither opens a socket nor sets running
C29_CloseFinal ==
    /\ [](call.result = "closed"
             => /\ ~running
                /\ ws = NoSocket
                /\ reader.pc = "none")
    /\ [][(call.pc = "close_wait" /\ reader.late)
            => /\ running' = running
               /\ sockets_opened' = sockets_opened]_vars

\* the client under connect() calls of the orchestrator, the read loop and the
\* failures of the network, with one socket more to hand out
SocketsNext ==
    \/ CallConnect
    \/ CallerConnectRetry
    \/ CallerDials(MaxSockets + 1)
    \/ CallerDialFails
    \/ ReaderTop
    \/ ReaderRecvClosed
    \/ ReaderConnectRetry
    \/ ReaderDials(MaxSockets + 1)
    \/ ReaderDialFails
    \/ SocketCloses

SpecSockets == ConnInit /\ [][SocketsNext]_vars

\* C36: every socket that was opened and is not closed is the client's
\* current socket, so that at most one socket is open
C36_SingleSocket == open_sockets \subseteq {ws}

\* the symbols the tickers of the model are for
TickerSymbols == {_reverse_format_symbol(x).val : x \in ExchangePairs}

(***************************************************************************)
(* Specification SpecStart: MultiCoinTradingBot.start() taken from one     *)
(* await to the next, with the read loop of its client.  connect() creates *)
(* the read loop, every send of subscribe_prices is an await, and the      *)
(* exchange sends tickers of the pairs that are subscribed.  call.todo     *)
(* holds the symbols subscribe_prices has yet to subscribe.                *)
(***************************************************************************)
\* start() lines 76-98: the history is loaded, connect() returned a socket and
\* created the read loop, subscribe_prices(symbols) begins
StartConnects(fetched) ==
    /\ bot = "MultiCoinTradingBot"
    /\ phase = "new"
    /\ fetched # {}
    /\ phase' = "subscribing"
    /\ coin_data' = load_market_data(Fetched(fetched))
    /\ tasks' = Spawned(tasks, FALSE)
    /\ ws' = 1
    /\ open_sockets' = {1}
    /\ sockets_opened' = 1
    /\ running' = TRUE
    /\ _reconnect_attempts' = 0
    /\ reader' = Receiving(NoReader, 1)
    /\ call' = [IdleCall EXCEPT !.op = "subscribe_prices", !.todo = symbols]
    /\ UNCHANGED <<subscriptions, sent_messages, symVars, msgVars,
                   bot, single_coin_mode, symbols, active_symbol,
                   available_balance, allocated_balances, positions, cash,
                   current_prices, buys, opportunity_scores, _analysis_complete,
                   total_trades, last_op, switching, ledger, fetch, pnl, analyzer>>

\* start() lines 99-100: subscribe_prices subscribes its next symbol
StartSubscribes ==
    /\ phase = "subscribing"
    /\ call.todo # <<>>
    /\ LET r == _subscribe_to_symbol(Head(call.todo), ws, open_sockets,
                                     subscriptions, sent_messages)
       IN  /\ subscriptions' = r.subs
           /\ sent_messages' = r.sent
    /\ call' = [call EXCEPT !.todo = Tail(@)]
    /\ UNCHANGED <<ws, open_sockets, sockets_opened, running, _reconnect_attempts,
                   reader, symVars, msgVars, orchVars>>

\* start() lines 103-131: the handler is registered, the first analysis made
\* and the loops created
StartRegisters(sc) ==
    /\ phase = "subscribing"
    /\ call.todo = <<>>
    /\ LET scores == Rescored(opportunity_scores, coin_data, sc)
           best   == Best(scores, coin_data)
       IN  /\ phase' = "running"
           /\ on_price_update' = "_handle_price_update"
           /\ opportunity_scores' = scores
           /\ _analysis_complete' = Conclusive(scores, coin_data)
           /\ Becomes(IF Conclusive(scores, coin_data)
                      THEN [_switch_active_coin(best, "start")
                               EXCEPT !.op = Op("start", NoSymbol, FALSE)]
                      ELSE Stayed("start"))
    /\ tasks' = Spawned(tasks, TRUE)
    /\ call' = IdleCall
    /\ UNCHANGED <<ws, open_sockets, sockets_opened, running, subscriptions,
                   sent_messages, _reconnect_attempts, reader, symVars,
                   price_data, ohlcv_data, observer_calls, msg,
                   bot, single_coin_mode, symbols, current_prices, buys, coin_data,
                   switching, ledger, fetch, pnl, analyzer>>

\* the exchange sends a ticker of a subscribed pair and the read loop
\* processes it
SubscribedTicker(m) ==
    /\ m.pair \in subscriptions
    /\ DeliverTicker(m)

StartInit ==
    /\ OrchClientInit
    /\ OrchestratorInit("MultiCoinTradingBot", FALSE, <<BTC, ETH>>)

StartNext ==
    \/ \E fetched \in SUBSET Range(symbols) : StartConnects(fetched)
    \/ StartSubscribes
    \/ \E sc \in [Range(coin_data) -> OrchScores] : StartRegisters(sc)
    \/ \E m \in OrchTickers : SubscribedTicker(m)

SpecStart == StartInit /\ [][StartNext]_vars

C25_LastWriteWins ==
    /\ \A s \in TickerSymbols : get_latest_price(price_data, s) = NoPrice
    /\ [][\A s \in TickerSymbols :
             IF WellFormedTicker(msg') /\ _reverse_format_symbol(msg'.pair).val = s
             THEN /\ get_latest_price(price_data', s) = Decimal(msg'.price_data.c[1]).val
                  /\ price_data'[s].timestamp = msg'.now
             ELSE /\ get_latest_price(price_data', s) = get_latest_price(price_data, s)
                  /\ s \in DOMAIN price_data' <=> s \in DOMAIN price_data
                  /\ s \in DOMAIN price_data => price_data'[s] = price_data[s]]_vars

\* BTC/USDT was last quoted at 51000 and ETH/USDT at 50000, and the message
\* just processed is a BTC/USDT ticker without its volume
C25_Witness ==
    /\ msg.kind = "ticker"
    /\ msg.pair = <<"XBT", "USDT">>
    /\ msg.price_data.v = Absent
    /\ msg.price_data.c = <<"50000.00000", "0.001">>
    /\ get_latest_price(price_data, <<"BTC", "USDT">>) = 51000
    /\ get_latest_price(price_data, <<"ETH", "USDT">>) = 50000
    /\ reader.pc = "top"

notAnalyzer == <<symVars, connVars, msgVars,
                 bot, single_coin_mode, symbols, phase, active_symbol,
                 available_balance, allocated_balances, positions, cash,
                 current_prices, buys, coin_data, opportunity_scores,
                 _analysis_complete, total_trades, last_op, switching, tasks, ledger,
                 fetch, pnl>>

Thresholds == {10, 15, 20}

MarginScores == {50, 62, 68, 80}

\* CoinOpportunityAnalyzer(switch_threshold=t)
MakeAnalyzer(t) ==
    /\ analyzer = NoAnalyzer
    /\ analyzer' = [NoAnalyzer EXCEPT !.switch_threshold = t]
    /\ UNCHANGED notAnalyzer

\* calculate_opportunity_scores() gives the coins with data the scores of sc
ScoreCoins(sc) ==
    /\ analyzer' = [analyzer EXCEPT
                       !.opportunity_scores = Rescored(@, <<BTC, ETH>>, sc),
                       !.current_coin = NoSymbol,
                       !.returned = NoSymbol]
    /\ UNCHANGED notAnalyzer

\* should_change_coin(current_coin)
AskChange(current_coin) ==
    /\ analyzer.opportunity_scores[current_coin] # NoScore
    /\ analyzer' = [analyzer EXCEPT
                       !.current_coin = current_coin,
                       !.returned = should_change_coin(analyzer.opportunity_scores,
                                                       <<BTC, ETH>>, current_coin)]
    /\ UNCHANGED notAnalyzer

MarginNext ==
    \/ \E t \in Thresholds : MakeAnalyzer(t)
    \/ \E sc \in [{BTC, ETH} -> MarginScores] : ScoreCoins(sc)
    \/ \E current_coin \in {BTC, ETH} : AskChange(current_coin)

SpecMargin == ConnInit /\ [][MarginNext]_vars

\* C34: should_change_coin returns the best coin exactly when its score
\* exceeds the score of the current coin by more than the configured
\* switch_threshold, and None otherwise
C34_ConfiguredMargin ==
    analyzer.current_coin # NoSymbol =>
        LET scores  == analyzer.opportunity_scores
            current == scores[analyzer.current_coin]
            best    == Best(scores, <<BTC, ETH>>)
        IN  analyzer.returned =
               IF scores[best] > current + analyzer.switch_threshold THEN best
               ELSE NoSymbol

(***************************************************************************)
(* Specification SpecSource: a MultiCoinTradingBot, its client's read loop *)
(* and the cycles of its executors.  The MarketData of an executor makes a *)
(* KrakenClient of its own, which nothing connects, subscribes or feeds.   *)
(***************************************************************************)
\* self._client.ohlcv_data of MarketData(symbol, timeframe): the cache of the
\* client that MarketData.__init__ constructs
ExecutorCandles(symbol) == EmptyDict

\* MarketData.get_ohlcv(): the candles of the executor's client for the symbol,
\* [] when it has none
MarketData_get_ohlcv(symbol) ==
    IF symbol \in DOMAIN ExecutorCandles(symbol) THEN ExecutorCandles(symbol)[symbol]
    ELSE <<>>

\* one iteration of MultiCoinTradingBot._trading_execution_loop that reaches
\* the executor; execute_cycle answers "No market data available" when
\* get_ohlcv() of its MarketData is empty
ExecutorCycle(close, signal) ==
    /\ bot = "MultiCoinTradingBot"
    /\ phase = "running"
    /\ _analysis_complete
    /\ active_symbol # NoSymbol
    /\ allocated_balances[active_symbol] > 0
    /\ available_balance + allocated_balances[active_symbol] <= MaxBalance
    /\ ValidPrice(LatestPrice(active_symbol))
    /\ signal # 0 => total_trades < MaxTrades
    /\ LET has_data == MarketData_get_ohlcv(active_symbol) # <<>>
           result == execute_cycle(active_symbol, allocated_balances[active_symbol],
                                   has_data, close, signal)
       IN  /\ cash' = [cash EXCEPT ![active_symbol] = result.cash]
           /\ positions' = [positions EXCEPT ![active_symbol] = result.position]
           /\ buys' = [buys EXCEPT ![active_symbol] = result.buys]
           /\ current_prices' = [current_prices EXCEPT ![active_symbol] = result.price]
           /\ allocated_balances' =
                 [allocated_balances EXCEPT ![active_symbol] = result.portfolio_value]
           /\ total_trades' = IF result.action = "hold" THEN total_trades
                              ELSE total_trades + 1
           /\ last_op' = Op(IF has_data THEN result.action ELSE "no_data",
                            NoSymbol, FALSE)
    /\ UNCHANGED <<switching, tasks, ledger, fetch, pnl, analyzer, bot, single_coin_mode,
                   symbols, phase, active_symbol, available_balance, coin_data,
                   opportunity_scores, _analysis_complete, symVars, connVars, msgVars>>

SourceNext ==
    \/ \E connected \in BOOLEAN : \E fetched \in SUBSET Range(symbols) :
          \E sc \in [fetched -> OrchScores] : StartMultiCoin(connected, fetched, sc)
    \/ \E sc \in [Range(coin_data) -> OrchScores] : \E fresh \in BOOLEAN :
          AnalysisMultiCoin(sc, fresh)
    \/ \E m \in AtomicTickers : DeliverTicker(m)
    \/ \E signal \in {1, 0, -1} : \E close \in ClosePrices : ExecutorCycle(close, signal)

SourceInit ==
    /\ OrchClientInit
    /\ OrchestratorInit("MultiCoinTradingBot", FALSE, <<BTC, ETH>>)

SpecSource == SourceInit /\ [][SourceNext]_vars

MaxAvailable == 12       \* no call once the available amount is beyond this, either way

Amounts == {-2, -1, 0, 1, 2}

\* Balance.increase(amount)
increase(amount) ==
    /\ ledger.made
    /\ ledger.balance \in -MaxAvailable..MaxAvailable
    /\ ledger' = [ledger EXCEPT !.balance = @ + amount,
                                !.call = [op |-> "increase", amount |-> amount],
                                !.returned = "None"]
    /\ UNCHANGED notLedger

\* Balance.decrease(amount)
decrease(amount) ==
    /\ ledger.made
    /\ ledger.balance \in -MaxAvailable..MaxAvailable
    /\ ledger' = IF amount > ledger.balance
                 THEN [ledger EXCEPT !.call = [op |-> "decrease", amount |-> amount],
                                     !.returned = "False"]
                 ELSE [ledger EXCEPT !.balance = @ - amount,
                                     !.call = [op |-> "decrease", amount |-> amount],
                                     !.returned = "True"]
    /\ UNCHANGED notLedger

BalanceNext ==
    \/ MakeLedger
    \/ \E amount \in Amounts : increase(amount)
    \/ \E amount \in Amounts : decrease(amount)

SpecBalance == ConnInit /\ [][BalanceNext]_vars

\* C31: increase and decrease reject an amount that is zero or negative with
\* an error and leave the available balance as it was
C31_AmountValidation ==
    [][(/\ ledger' # ledger
        /\ ledger'.call.op \in {"increase", "decrease"}
        /\ ledger'.call.amount <= 0)
          => /\ ledger'.returned = "ValueError"
             /\ ledger'.balance = ledger.balance]_vars

(***************************************************************************)
(* Specification SpecPnl: the buys and sells of a TradingBot on one        *)
(* symbol and its performance metrics.  pnl.buy_cost and pnl.buy_volume    *)
(* are the sums of cost and volume over the buy records of                 *)
(* execution_history[symbol]; pnl.open_cost and pnl.open_volume are those  *)
(* of the buys since the position was last zero, which the code does not   *)
(* keep; pnl.sold is the last sell: its price and volume, the open lot it  *)
(* closed, the amount it added to total_profit_loss and whether it raised  *)
(* profitable_trades.  An amount that is a quotient is kept as a fraction. *)
(***************************************************************************)
notPnl == <<symVars, connVars, msgVars,
            bot, single_coin_mode, symbols, phase, active_symbol,
            available_balance, allocated_balances, positions, cash,
            current_prices, buys, coin_data, opportunity_scores,
            _analysis_complete, total_trades, last_op, switching, tasks, ledger, fetch, analyzer>>

PnlBalance == 6          \* the allocation of the symbol
MaxPnlTrades == 4        \* executed trades

PnlPrices == {1, 2, 3}
PnlVolumes == {1, 2}

Plus(a, b) == [num |-> a.num * b.den + b.num * a.den, den |-> a.den * b.den]

\* _get_average_buy_price(symbol): total cost and total volume of every buy
\* record of the symbol, whose quotient it returns
_get_average_buy_price(p) == [cost |-> p.buy_cost, volume |-> p.buy_volume]

\* _switch_active_coin allocates to the symbol (lines 343-345)
PnlAllocate ==
    /\ pnl = NoPnl
    /\ pnl' = [pnl EXCEPT !.allocated = PnlBalance]
    /\ UNCHANGED notPnl

\* _execute_buy(symbol, price, volume) with a cost the allocation covers
PnlBuy(price, volume) ==
    /\ pnl.allocated > 0
    /\ pnl.trades < MaxPnlTrades
    /\ price * volume <= pnl.allocated
    /\ pnl' = [pnl EXCEPT !.allocated = @ - price * volume,
                          !.position = @ + volume,
                          !.buy_cost = @ + price * volume,
                          !.buy_volume = @ + volume,
                          !.open_cost = @ + price * volume,
                          !.open_volume = @ + volume,
                          !.trades = @ + 1]
    /\ UNCHANGED notPnl

\* _execute_sell(symbol, price) of the whole position, as the trading loop and
\* the switch call it
PnlSell(price) ==
    /\ pnl.position > 0
    /\ pnl.trades < MaxPnlTrades
    /\ LET volume == pnl.position
           avg    == _get_average_buy_price(pnl)
           \* profit = volume * (price - avg_buy_price)
           profit == [num |-> volume * (price * avg.volume - avg.cost),
                      den |-> avg.volume]
           counts == price * avg.volume > avg.cost
       IN  pnl' = [pnl EXCEPT
                      !.allocated = @ + price * volume,
                      !.position = 0,
                      !.open_cost = 0,
                      !.open_volume = 0,
                      !.trades = @ + 1,
                      !.total_profit_loss = Plus(@, profit),
                      !.profitable_trades = IF counts THEN @ + 1 ELSE @,
                      !.sold = [price |-> price, volume |-> volume,
                                open_cost |-> pnl.open_cost,
                                open_volume |-> pnl.open_volume,
                                added |-> profit, counted |-> counts]]
    /\ UNCHANGED notPnl

PnlNext ==
    \/ PnlAllocate
    \/ \E price \in PnlPrices : \E volume \in PnlVolumes : PnlBuy(price, volume)
    \/ \E price \in PnlPrices : PnlSell(price)

SpecPnl == ConnInit /\ [][PnlNext]_vars

\* C30: the amount a sell adds to total_profit_loss is volume x (sell price -
\* weighted-average buy price of the open lot it closes), and the sell raises
\* profitable_trades exactly when that amount is positive
C30_RealizedPnl ==
    pnl.sold.volume > 0 =>
        LET sale     == pnl.sold
            realized == sale.volume * (sale.price * sale.open_volume - sale.open_cost)
        IN  /\ sale.added.num * sale.open_volume = realized * sale.added.den
            /\ sale.counted <=> realized > 0

(***************************************************************************)
(* Specification SpecLoops: a MultiCoinTradingBot configured with the      *)
(* exchange's own name of a pair, XBT/USDT, next to ETH/USDT, and its two  *)
(* loop tasks.  The history of XBT/USDT is not fetched; the tickers of the *)
(* pair reach the observer under the canonical symbol BTC/USDT.            *)
(***************************************************************************)
XBT == <<"XBT", "USDT">>

\* the statements of the trading loop between "while" and "try" (lines
\* 233-245): the exception they raise, NoException if none.  all_prices is the
\* price cache; with no active symbol and a key in it, line 241 evaluates
\* self.active_symbol.upper()
BeforeTry(active, all_prices) ==
    IF active \notin DOMAIN all_prices /\ DOMAIN all_prices # {} /\ active = NoSymbol
    THEN "AttributeError"
    ELSE NoException

\* one iteration of MultiCoinTradingBot._trading_execution_loop that ends
\* before the executor is called: with an exception of the statements before
\* "try", which ends the task, or in one of the waits of lines 256-258, 292-297
TradingLoopIdles ==
    /\ bot = "MultiCoinTradingBot"
    /\ phase = "running"
    /\ tasks.trading = "head"
    /\ _analysis_complete
    /\ tasks' = [tasks EXCEPT !.trading =
                    IF BeforeTry(active_symbol, price_data) = NoException THEN "head"
                    ELSE "raised"]
    /\ last_op' = Op("wait", NoSymbol, FALSE)
    /\ UNCHANGED <<switching, ledger, fetch, pnl, analyzer, bot, single_coin_mode, symbols, phase,
                   active_symbol, available_balance, allocated_balances, positions,
                   cash, current_prices, buys, coin_data, opportunity_scores,
                   _analysis_complete, total_trades, symVars, connVars, msgVars>>

LoopsInit ==
    /\ OrchClientInit
    /\ OrchestratorInit("MultiCoinTradingBot", FALSE, <<XBT, ETH>>)

LoopsNext ==
    \/ \E connected \in BOOLEAN : \E fetched \in SUBSET (Range(symbols) \cap AllSymbols) :
          \E sc \in [fetched -> OrchScores] : StartMultiCoin(connected, fetched, sc)
    \/ \E sc \in [Range(coin_data) -> OrchScores] : \E fresh \in BOOLEAN :
          tasks.analysis = "head" /\ AnalysisMultiCoin(sc, fresh)
    \/ \E signal \in {1, 0, -1} : \E has_data \in BOOLEAN : \E close \in ClosePrices :
          /\ tasks.trading = "head"
          /\ BeforeTry(active_symbol, price_data) = NoException
          /\ TradeMultiCoin(has_data, close, signal)
    \/ TradingLoopIdles
    \/ \E m \in AtomicTickers : DeliverTicker(m)

SpecLoops == LoopsInit /\ [][LoopsNext]_vars

C27_StartToleratesFailure ==
    tasks.is_running =>
        /\ phase = "running"
        /\ tasks.analysis # "none"
        /\ tasks.trading # "none"

(***************************************************************************)
(* Specification SpecSym: _reverse_format_symbol(_format_symbol(s)) on     *)
(* every symbol over a small alphabet of asset codes.                      *)
(***************************************************************************)
AssetCodes == {"BTC", "XBT", "ETH", "SOL", "USDT", "USD", "EUR", ""}

SymbolInputs ==
    {<<a>> : a \in AssetCodes}
    \cup {<<a, b>> : a \in AssetCodes, b \in AssetCodes}

SymInit ==
    /\ sym_pc = "format"
    /\ sym_in \in SymbolInputs
    /\ sym_fmt = Unset
    /\ sym_rev = Unset
    /\ ClientInit
    /\ CacheInit
    /\ NoOrchestrator

FormatSymbol ==
    /\ sym_pc = "format"
    /\ sym_fmt' = _format_symbol(sym_in)
    /\ sym_pc' = IF sym_fmt'.ok THEN "reverse" ELSE "done"
    /\ sym_rev' = IF sym_fmt'.ok THEN sym_rev ELSE sym_fmt'
    /\ UNCHANGED <<sym_in, notSym>>

ReverseFormatSymbol ==
    /\ sym_pc = "reverse"
    /\ sym_rev' = _reverse_format_symbol(sym_fmt.val)
    /\ sym_pc' = "done"
    /\ UNCHANGED <<sym_in, sym_fmt, notSym>>

SymNext == FormatSymbol \/ ReverseFormatSymbol

SpecSym == SymInit /\ [][SymNext]_vars

\* an exchange-only code: the exchange's name of an asset whose canonical name
\* differs ("XBT")
ExchangeOnly(code) ==
    \E i \in 1..Len(ASSET_MAPPING_KEYS) :
        /\ ASSET_MAPPING(ASSET_MAPPING_KEYS[i]) = code
        /\ ASSET_MAPPING_KEYS[i] # code

\* C7 (as claimed): from_exchange(to_exchange(s)) = s for every symbol s.
C7_RoundTripEverySymbol ==
    (sym_pc = "done") => (sym_rev.ok /\ sym_rev.val = sym_in)

\* C7 (amended): the round trip returns s for every symbol base/quote whose
\* base and quote are not an exchange-only code ("XBT"), in the mapping or
\* not, and for every symbol without '/'.
C7_RoundTripCanonical ==
    (/\ sym_pc = "done"
     /\ \/ NoSlash(sym_in)
        \/ \A i \in 1..Len(sym_in) : ~ExchangeOnly(sym_in[i]))
        => (sym_rev.ok /\ sym_rev.val = sym_in)

C7_Witness ==
    /\ sym_pc = "done"
    /\ sym_in = <<"BTC", "USDT">>
    /\ sym_fmt = Ok(<<"XBT", "USDT">>)
    /\ sym_rev = Ok(<<"BTC", "USDT">>)

====
